---- MODULE Spec2Model ----
(***************************************************************************)
(* A model of the Blog API worker: the credential codec (JWT, password     *)
(* hash), the rate limiter, access control, the cache-aside layer and the  *)
(* resource handlers that use them.                                        *)
(*                                                                         *)
(* Text is a sequence of code points.  HMAC-SHA256 and SHA-256 are          *)
(* symbolic (collision free): a digest is the record of what was digested. *)
(* The clock `now` is Date.now(), in milliseconds.                         *)
(***************************************************************************)
EXTENDS Integers, Sequences, FiniteSets, TLC

VARIABLES
    now,    \* Date.now(): milliseconds
    kv,     \* env.CACHE (KVNamespace): key -> [val, exp]
    db,     \* env.DB (D1): the tables
    req,    \* the requests in flight: slot -> request, position and locals
    jwt,    \* the credential codec's harness: claims, secret, token, result
    hist    \* what has been observed of the requests so far

vars == <<now, kv, db, req, jwt, hist>>

-----------------------------------------------------------------------------
(* Bounds of the model *)

\* The user ids the credential codec is tried on: 1..MaxUserId.
MaxUserId == 2

\* Date.now() when the worker's runs start (the credential codec's start at 0).
Epoch == 90000000

\* The number of requests of a run against one counter.
SeqRequests == 103

\* The number of requests of a run against the cache-aside layer.
CacheRequests == 3

\* The number of requests of a run through the chain of checks.
GateRequests == 12

\* The number of registrations and logins of a run.
AuthRequests == 3

\* The number of requests of a run of concurrent reads and mutations.
RaceRequests == 3

-----------------------------------------------------------------------------
(* Text *)

DOT == 46
QUOTE == 34
BACKSLASH == 92
EQUALS == 61
AT == 64

Drop(s, n) == SubSeq(s, n + 1, Len(s))
HasPrefix(s, p) == Len(s) >= Len(p) /\ SubSeq(s, 1, Len(p)) = p

\* The texts the code writes as literals (the token's JSON pieces, the routes,
\* the keys) and the texts of the inputs.
Txt ==
    [headerJSON |-> <<123, 34, 97, 108, 103, 34, 58, 34, 72, 83, 50, 53, 54, 34, 44, 34, 116, 121, 112, 34, 58, 34, 74, 87, 84, 34, 125>>,
     userId |-> <<123, 34, 117, 115, 101, 114, 73, 100, 34, 58>>,
     email |-> <<44, 34, 101, 109, 97, 105, 108, 34, 58>>,
     exp |-> <<44, 34, 101, 120, 112, 34, 58>>,
     close |-> <<125>>,
     undefined |-> <<117, 110, 100, 101, 102, 105, 110, 101, 100>>,
     uploads |-> <<117, 112, 108, 111, 97, 100, 115>>,   \* 'uploads'
     scriptOpen |-> <<60, 115, 99, 114, 105, 112, 116>>,   \* '<script'
     scriptClose |-> <<60, 47, 115, 99, 114, 105, 112, 116, 62>>,   \* '</script>'
     png |-> <<112, 110, 103>>,   \* 'png'
     nowhere |-> <<110, 111, 119, 104, 101, 114, 101>>,   \* 'nowhere'
     emailA |-> <<97, 64, 98, 46, 99, 111>>,   \* a@b.co
     emailZ |-> <<122, 64, 98, 46, 99, 111>>,   \* z@b.co
     emailQuote |-> <<113, 34, 64, 98, 46, 99, 111>>,   \* q"@b.co
     emailLatin1 |-> <<233, 64, 98, 46, 99, 111>>,   \* e-acute @b.co
     emailGreek |-> <<955, 64, 98, 46, 99, 111>>,   \* lambda @b.co
     api |-> <<97, 112, 105>>,   \* 'api'
     health |-> <<104, 101, 97, 108, 116, 104>>,   \* 'health'
     posts |-> <<112, 111, 115, 116, 115>>,   \* 'posts'
     categories |-> <<99, 97, 116, 101, 103, 111, 114, 105, 101, 115>>,   \* 'categories'
     authors |-> <<97, 117, 116, 104, 111, 114, 115>>,   \* 'authors'
     comments |-> <<99, 111, 109, 109, 101, 110, 116, 115>>,   \* 'comments'
     media |-> <<109, 101, 100, 105, 97>>,   \* 'media'
     ai |-> <<97, 105>>,   \* 'ai'
     search |-> <<115, 101, 97, 114, 99, 104>>,   \* 'search'
     auth |-> <<97, 117, 116, 104>>,   \* 'auth'
     views |-> <<118, 105, 101, 119, 115>>,   \* 'views'
     login |-> <<108, 111, 103, 105, 110>>,   \* 'login'
     register |-> <<114, 101, 103, 105, 115, 116, 101, 114>>,   \* 'register'
     upload |-> <<117, 112, 108, 111, 97, 100>>,   \* 'upload'
     status |-> <<115, 116, 97, 116, 117, 115>>,   \* 'status'
     generateExcerpt |-> <<103, 101, 110, 101, 114, 97, 116, 101, 45, 101, 120, 99, 101, 114, 112, 116>>,   \* 'generate-excerpt'
     generateTags |-> <<103, 101, 110, 101, 114, 97, 116, 101, 45, 116, 97, 103, 115>>,   \* 'generate-tags'
     contentAnalysis |-> <<99, 111, 110, 116, 101, 110, 116, 45, 97, 110, 97, 108, 121, 115, 105, 115>>,   \* 'content-analysis'
     rateLimit |-> <<114, 97, 116, 101, 95, 108, 105, 109, 105, 116, 58>>,   \* 'rate_limit:'
     unknown |-> <<117, 110, 107, 110, 111, 119, 110>>,   \* 'unknown'
     bearer |-> <<66, 101, 97, 114, 101, 114, 32>>,   \* 'Bearer '
     postsKey |-> <<112, 111, 115, 116, 115, 58>>,   \* 'posts:'
     postKey |-> <<112, 111, 115, 116, 58>>,   \* 'post:'
     categoriesAll |-> <<99, 97, 116, 101, 103, 111, 114, 105, 101, 115, 58, 97, 108, 108>>,   \* 'categories:all'
     authorsAll |-> <<97, 117, 116, 104, 111, 114, 115, 58, 97, 108, 108>>,   \* 'authors:all'
     searchKey |-> <<115, 101, 97, 114, 99, 104, 58>>,   \* 'search:'
     one |-> <<49>>,   \* '1'
     two |-> <<50>>,   \* '2'
     nine |-> <<57>>,   \* '9'
     abc |-> <<97, 98, 99>>,   \* 'abc'
     iP1 |-> <<49, 48, 46, 48, 46, 48, 46, 49>>,   \* '10.0.0.1'
     iP2 |-> <<49, 48, 46, 48, 46, 48, 46, 50>>,   \* '10.0.0.2'
     lowerBearer |-> <<98, 101, 97, 114, 101, 114, 32>>,   \* 'bearer '
     basic |-> <<66, 97, 115, 105, 99, 32>>,   \* 'Basic '
     titleHello |-> <<72, 101, 108, 108, 111>>,   \* 'Hello'
     titleHelloBang |-> <<104, 101, 108, 108, 111, 33>>,   \* 'hello!'
     titleNews |-> <<78, 101, 119, 115, 32, 49>>,   \* 'News 1'
     body |-> <<83, 111, 109, 101, 32, 116, 101, 120, 116>>,   \* 'Some text'
     spam |-> <<115, 112, 97, 109>>,   \* 'spam'
     http |-> <<104, 116, 116, 112, 58, 47, 47>>,   \* 'http://'
     https |-> <<104, 116, 116, 112, 115, 58, 47, 47>>,   \* 'https://'
     spamUrl |-> <<104, 116, 116, 112, 115, 58, 47, 47, 115, 112, 97, 109, 46, 101, 120, 97, 109, 112, 108, 101>>,   \* 'https://spam.example'
     upperSpam |-> <<83, 80, 65, 77>>,   \* 'SPAM'
     httpLink |-> <<115, 101, 101, 32, 104, 116, 116, 112, 58, 47, 47, 97, 46, 98>>,   \* 'see http://a.b'
     upperScheme |-> <<72, 84, 84, 80, 83, 58, 47, 47, 65, 46, 66>>,   \* 'HTTPS://A.B'
     nice |-> <<78, 105, 99, 101, 32, 112, 111, 115, 116>>,   \* 'Nice post'
     ann |-> <<65, 110, 110>>]   \* 'Ann'

-----------------------------------------------------------------------------
(* btoa / atob: base64 over Latin-1 *)

\* The code point of the base64 digit v (0..63).
B64Char(v) ==
    IF v < 26 THEN 65 + v
    ELSE IF v < 52 THEN 97 + (v - 26)
    ELSE IF v < 62 THEN 48 + (v - 52)
    ELSE IF v = 62 THEN 43 ELSE 47

\* The digit of a base64 code point, -1 when it is none.
B64Val(c) ==
    IF c >= 65 /\ c <= 90 THEN c - 65
    ELSE IF c >= 97 /\ c <= 122 THEN c - 97 + 26
    ELSE IF c >= 48 /\ c <= 57 THEN c - 48 + 52
    ELSE IF c = 43 THEN 62
    ELSE IF c = 47 THEN 63 ELSE -1

RECURSIVE B64Encode(_)
B64Encode(b) ==
    IF Len(b) = 0 THEN <<>>
    ELSE IF Len(b) = 1 THEN
        <<B64Char(b[1] \div 4), B64Char((b[1] % 4) * 16), EQUALS, EQUALS>>
    ELSE IF Len(b) = 2 THEN
        <<B64Char(b[1] \div 4), B64Char((b[1] % 4) * 16 + b[2] \div 16),
          B64Char((b[2] % 16) * 4), EQUALS>>
    ELSE
        <<B64Char(b[1] \div 4), B64Char((b[1] % 4) * 16 + b[2] \div 16),
          B64Char((b[2] % 16) * 4 + b[3] \div 64), B64Char(b[3] % 64)>>
        \o B64Encode(Drop(b, 3))

RECURSIVE B64Decode(_)
B64Decode(d) ==
    IF Len(d) < 2 THEN <<>>
    ELSE IF Len(d) = 2 THEN <<d[1] * 4 + d[2] \div 16>>
    ELSE IF Len(d) = 3 THEN
        <<d[1] * 4 + d[2] \div 16, (d[2] % 16) * 16 + d[3] \div 4>>
    ELSE
        <<d[1] * 4 + d[2] \div 16, (d[2] % 16) * 16 + d[3] \div 4,
          (d[3] % 4) * 64 + d[4]>>
        \o B64Decode(Drop(d, 4))

\* btoa(s): throws (ok = FALSE) on a code point above 0xFF.
btoa(s) ==
    IF \E i \in 1..Len(s) : s[i] > 255
    THEN [ok |-> FALSE, text |-> <<>>]
    ELSE [ok |-> TRUE, text |-> B64Encode(s)]

\* atob's padding rule: with a length that is a multiple of 4, up to two
\* trailing "=" are removed.
StripPad(s) ==
    IF Len(s) % 4 = 0 /\ Len(s) >= 1 /\ s[Len(s)] = EQUALS
    THEN IF Len(s) >= 2 /\ s[Len(s) - 1] = EQUALS
         THEN SubSeq(s, 1, Len(s) - 2)
         ELSE SubSeq(s, 1, Len(s) - 1)
    ELSE s

\* atob(s): throws on a length of 1 mod 4 after stripping and on a character
\* outside the base64 alphabet.
atob(s) ==
    LET t == StripPad(s) IN
    IF Len(t) % 4 = 1 \/ \E i \in 1..Len(t) : B64Val(t[i]) < 0
    THEN [ok |-> FALSE, text |-> <<>>]
    ELSE [ok |-> TRUE, text |-> B64Decode([i \in 1..Len(t) |-> B64Val(t[i])])]

-----------------------------------------------------------------------------
(* JSON.stringify / JSON.parse of the token's payload *)

RECURSIVE Digits(_)
Digits(n) == IF n < 10 THEN <<48 + n>> ELSE Digits(n \div 10) \o <<48 + (n % 10)>>

IsDigit(c) == c >= 48 /\ c <= 57

RECURSIVE DigitRun(_)
\* The length of the run of digits s starts with.
DigitRun(s) == IF Len(s) > 0 /\ IsDigit(s[1]) THEN 1 + DigitRun(Drop(s, 1)) ELSE 0

RECURSIVE NumVal(_)
NumVal(ds) ==
    IF Len(ds) = 0 THEN 0
    ELSE NumVal(SubSeq(ds, 1, Len(ds) - 1)) * 10 + (ds[Len(ds)] - 48)

RECURSIVE EscapeJSON(_)
\* The body of a JSON string: quote and backslash escaped.
EscapeJSON(s) ==
    IF Len(s) = 0 THEN <<>>
    ELSE (IF s[1] = QUOTE \/ s[1] = BACKSLASH THEN <<BACKSLASH, s[1]>> ELSE <<s[1]>>)
         \o EscapeJSON(Drop(s, 1))

RECURSIVE StringRun(_)
\* The length of a JSON string's body up to its closing quote; -1 when the
\* text ends, or holds a raw control character, before one.
StringRun(s) ==
    IF Len(s) = 0 \/ s[1] < 32 THEN -1
    ELSE IF s[1] = QUOTE THEN 0
    ELSE IF s[1] = BACKSLASH THEN
        IF Len(s) >= 2 /\ (s[2] = QUOTE \/ s[2] = BACKSLASH)
        THEN (LET r == StringRun(Drop(s, 2)) IN IF r < 0 THEN -1 ELSE r + 2)
        ELSE -1
    ELSE (LET r == StringRun(Drop(s, 1)) IN IF r < 0 THEN -1 ELSE r + 1)

RECURSIVE UnescapeJSON(_)
UnescapeJSON(s) ==
    IF Len(s) = 0 THEN <<>>
    ELSE IF s[1] = BACKSLASH THEN <<s[2]>> \o UnescapeJSON(Drop(s, 2))
    ELSE <<s[1]>> \o UnescapeJSON(Drop(s, 1))

NoPayload == [userId |-> 0, email |-> <<>>, exp |-> 0]

\* JSON.stringify({userId, email, exp}).
JSONstringify(p) ==
    Txt.userId \o Digits(p.userId) \o Txt.email
    \o <<QUOTE>> \o EscapeJSON(p.email) \o <<QUOTE>>
    \o Txt.exp \o Digits(p.exp) \o Txt.close

\* A JSON number: a digit run without a leading zero.
NumberOK(s, n) == n >= 1 /\ (n = 1 \/ s[1] /= 48)

\* JSON.parse of a payload text: throws (ok = FALSE) on anything that is not
\* the object {userId, email, exp} as JSONstringify writes it.
JSONparse(s) ==
    LET bad == [ok |-> FALSE, payload |-> NoPayload] IN
    IF ~HasPrefix(s, Txt.userId) THEN bad
    ELSE LET s1 == Drop(s, Len(Txt.userId))
             n1 == DigitRun(s1)
         IN IF ~NumberOK(s1, n1) THEN bad
    ELSE LET s2 == Drop(s1, n1)
         IN IF ~HasPrefix(s2, Txt.email \o <<QUOTE>>) THEN bad
    ELSE LET s3 == Drop(s2, Len(Txt.email) + 1)
             n3 == StringRun(s3)
         IN IF n3 < 0 THEN bad
    ELSE LET s4 == Drop(s3, n3 + 1)
         IN IF ~HasPrefix(s4, Txt.exp) THEN bad
    ELSE LET s5 == Drop(s4, Len(Txt.exp))
             n5 == DigitRun(s5)
         IN IF ~NumberOK(s5, n5) \/ Drop(s5, n5) /= Txt.close THEN bad
    ELSE [ok |-> TRUE,
          payload |-> [userId |-> NumVal(SubSeq(s1, 1, n1)),
                       email |-> UnescapeJSON(SubSeq(s3, 1, n3)),
                       exp |-> NumVal(SubSeq(s5, 1, n5))]]

-----------------------------------------------------------------------------
(* The credential codec *)

\* A token is the sequence of its dot-separated segments (token.split(".")).
\* A segment is a text, or the base64 text of a MAC, which stays symbolic:
\* what was signed, the key, and how the text was edited afterwards
\* (<<"flip", i>>: character i replaced by another base64 character;
\* <<"cut", i>>: the characters before i, as split(".") leaves them when
\* character i is replaced by a dot; <<"tail", i>>: those after i).
NoEdit == <<"none", 0>>
TextSeg(s) == [kind |-> "text", text |-> s, key |-> "", edit |-> NoEdit]

\* A segment the destructuring of a short split leaves undefined; a template
\* string prints it as "undefined".
Undefined == [kind |-> "undefined", text |-> Txt.undefined, key |-> "", edit |-> NoEdit]

\* The length of the signature segment: base64 of the 32 bytes of HMAC-SHA256.
SigLen == 44

\* sign(data, secret): btoa of HMAC-SHA256(secret, data).
sign(data, secret) == [kind |-> "mac", text |-> data, key |-> secret, edit |-> NoEdit]

SECONDS_24H == 24 * 60 * 60

NoToken == [ok |-> FALSE, token |-> <<>>]

\* generateJWT(payload, secret) at Date.now() = ms; ok = FALSE when it throws.
generateJWT(payload, secret, ms) ==
    LET exp == (ms \div 1000) + SECONDS_24H
        fullPayload == [userId |-> payload.userId, email |-> payload.email, exp |-> exp]
        encodedHeader == btoa(Txt.headerJSON)
        encodedPayload == btoa(JSONstringify(fullPayload))
    IN  IF ~encodedHeader.ok \/ ~encodedPayload.ok THEN NoToken
        ELSE [ok |-> TRUE,
              token |-> <<TextSeg(encodedHeader.text), TextSeg(encodedPayload.text),
                          sign(encodedHeader.text \o <<DOT>> \o encodedPayload.text, secret)>>]

\* null
Invalid == [ok |-> FALSE, payload |-> NoPayload]

\* The i-th element of the destructured split.
Segment(token, i) == IF Len(token) >= i THEN token[i] ELSE Undefined

\* atob of a segment: the text of a MAC is no JSON.
DecodeSegment(seg) ==
    IF seg.kind = "mac" THEN [ok |-> TRUE, text |-> <<0>>] ELSE atob(seg.text)

\* verifyJWT without the signature comparison.
verifyJWT_NoSignatureCheck(token, secret, ms) ==
    LET payload == Segment(token, 2)
        text == DecodeSegment(payload)
        decoded == IF text.ok THEN JSONparse(text.text) ELSE Invalid
    IN  IF ~decoded.ok THEN Invalid
        ELSE IF decoded.payload.exp < ms \div 1000 THEN Invalid
        ELSE decoded

\* verifyJWT(token, secret) at Date.now() = ms.
verifyJWT(token, secret, ms) ==
    LET header == Segment(token, 1)
        payload == Segment(token, 2)
        signature == Segment(token, 3)
        expectedSignature == sign(header.text \o <<DOT>> \o payload.text, secret)
        text == DecodeSegment(payload)
        decodedPayload == IF text.ok THEN JSONparse(text.text) ELSE Invalid
    IN  IF signature /= expectedSignature THEN Invalid
        ELSE IF ~decodedPayload.ok THEN Invalid             \* catch
        ELSE IF decodedPayload.payload.exp < ms \div 1000 THEN Invalid
        ELSE decodedPayload

-----------------------------------------------------------------------------
(* The inputs of the credential codec's harness *)


JwtEmails == {Txt.emailA, Txt.emailQuote, Txt.emailLatin1, Txt.emailGreek}
JwtSecrets == {"k1", "k2"}
\* Date.now() at issue and at verification: around the start, and around the
\* expiry of a token issued at 0 or at 1500.
JwtTimes == {0, 1500, 86399999, 86400000, 86400500, 86401000, 86401500, 86402000}

OtherSecret(s) == IF s = "k1" THEN "k2" ELSE "k1"
OtherClaims(c) == [userId |-> c.userId + 1, email |-> Txt.emailZ]

\* Tokens that are not three segments of which the second is the base64 of a
\* JSON text: one and two segments, a fourth segment after the issued token,
\* and, signed with the secret, a payload that is no base64 and one that is
\* the base64 of "abc".
MalformedVariants == {"one", "two", "four", "notBase64", "notJSON"}

\* The token of header h and payload segment p, signed.
Signed(h, p, secret) == <<h, TextSeg(p), sign(h.text \o <<DOT>> \o p, secret)>>

\* What is presented to verifyJWT in place of the issued token.
JwtVariants ==
    {<<"same", 0>>, <<"resign", 0>>, <<"swap", 0>>, <<"garbage", 0>>, <<"empty", 0>>}
    \cup {<<"flip", i>> : i \in 1..SigLen}
    \cup {<<"cut", i>> : i \in 1..SigLen}
    \cup {<<m, 0>> : m \in MalformedVariants}

EditSig(sig, e) == [sig EXCEPT !.edit = e]

Present(v) ==
    LET t == jwt.gen.token IN
    CASE v[1] = "same" -> t
      [] v[1] = "resign" -> generateJWT(jwt.claims, OtherSecret(jwt.secret), jwt.iat).token
      [] v[1] = "swap" ->
            <<t[1], t[2], generateJWT(OtherClaims(jwt.claims), jwt.secret, jwt.iat).token[3]>>
      [] v[1] = "garbage" -> <<t[1], t[2], TextSeg(<<65, 65, 65, 65>>)>>
      [] v[1] = "empty" -> <<t[1], t[2], TextSeg(<<>>)>>
      [] v[1] = "flip" -> <<t[1], t[2], EditSig(t[3], v)>>
      [] v[1] = "cut" -> <<t[1], t[2], EditSig(t[3], v), EditSig(t[3], <<"tail", v[2]>>)>>
      [] v[1] = "one" -> <<t[1]>>
      [] v[1] = "two" -> <<t[1], t[2]>>
      [] v[1] = "four" -> t \o <<TextSeg(Txt.abc)>>
      [] v[1] = "notBase64" -> Signed(t[1], <<33, 33, 33, 33>>, jwt.secret)
      [] v[1] = "notJSON" -> Signed(t[1], btoa(Txt.abc).text, jwt.secret)

JwtInit ==
    jwt \in [claims : [userId : 1..MaxUserId, email : JwtEmails],
             secret : JwtSecrets,
             issued : {FALSE}, iat : {0}, gen : {NoToken},
             verified : {FALSE}, variant : {<<"same", 0>>}, at : {0},
             result : {Invalid}]

\* generateJWT(claims, secret) is called.
JwtIssue ==
    /\ ~jwt.issued
    /\ jwt' = [jwt EXCEPT !.issued = TRUE, !.iat = now,
                          !.gen = generateJWT(jwt.claims, jwt.secret, now)]
    /\ UNCHANGED <<now, kv, db, req, hist>>

\* verifyJWT(token, secret) is called on the issued token or on a variant.
JwtVerify(v) ==
    /\ jwt.issued /\ jwt.gen.ok /\ ~jwt.verified
    /\ jwt' = [jwt EXCEPT !.verified = TRUE, !.variant = v, !.at = now,
                          !.result = verifyJWT(Present(v), jwt.secret, now)]
    /\ UNCHANGED <<now, kv, db, req, hist>>

\* Time passes, up to a later instant of `times`, until the verification.
JwtTick(times) ==
    /\ ~jwt.verified
    /\ \E t \in times : t > now /\ now' = t
    /\ UNCHANGED <<kv, db, req, jwt, hist>>

InitJWT == JwtInit /\ now \in {0, 1500} /\ kv = <<>> /\ db = <<>> /\ req = <<>> /\ hist = <<>>

NextJWT ==
    \/ JwtIssue
    \/ \E v \in JwtVariants : JwtVerify(v)
    \/ JwtTick(JwtTimes)

SpecJWT == InitJWT /\ [][NextJWT]_vars

\* The expiry generateJWT embeds in a token issued at jwt.iat.
JwtExp == (jwt.iat \div 1000) + SECONDS_24H

\* C1: for every claims pair and secret, verifyJWT(generateJWT(claims, secret),
\* secret) returns the same userId and email with exp = issue time + 24h at
\* every time before exp, and null at every time after exp.
C1_RoundTrip ==
    /\ jwt.issued => jwt.gen.ok
    /\ (jwt.verified /\ jwt.variant[1] = "same") =>
          /\ jwt.at < JwtExp * 1000 =>
                /\ jwt.result.ok
                /\ jwt.result.payload =
                      [userId |-> jwt.claims.userId, email |-> jwt.claims.email,
                       exp |-> JwtExp]
          /\ jwt.at > JwtExp * 1000 => ~jwt.result.ok

\* C2: verifyJWT accepts a token only if its embedded expiry is strictly
\* greater than the current time.
C2_ExpiryStrict ==
    (jwt.verified /\ jwt.variant[1] = "same" /\ jwt.result.ok) =>
        jwt.result.payload.exp * 1000 > jwt.at

\* C3: a token whose signature segment was replaced by a different value (a
\* single character flipped, in particular), or that was signed with another
\* secret, is invalid.
C3_TamperedSignatureInvalid ==
    (jwt.verified /\ jwt.variant[1] \notin {"same"} \cup MalformedVariants) => ~jwt.result.ok

\* A flipped signature was rejected while the untouched token was still valid.
C3_Witness ==
    /\ jwt.verified /\ jwt.variant[1] = "flip" /\ jwt.at < JwtExp * 1000
    /\ ~jwt.result.ok
    /\ verifyJWT(jwt.gen.token, jwt.secret, jwt.at).ok

\* C18: verifyJWT returns null for a token of fewer or more than three
\* segments, for a payload that is no base64 and for a payload that is no
\* JSON, as it does for a bad signature.
C18_MalformedInvalid ==
    (jwt.verified /\ jwt.variant[1] \in MalformedVariants) => ~jwt.result.ok

-----------------------------------------------------------------------------
(* More code points *)

COLON == 58
SPACE == 32
DASH == 45

-----------------------------------------------------------------------------
(* env.CACHE: the key-value store.  An entry lives until its expiry. *)

EmptyKV == [k \in {} |-> 0]

\* An entry that never expires.
KVLive_NoExpiry(k) == k \in DOMAIN kv

KVLive(k) == k \in DOMAIN kv /\ now < kv[k].exp

\* CACHE.get(k): null (found = FALSE) for an absent or expired key.
KVGet(k) == IF KVLive(k) THEN [found |-> TRUE, val |-> kv[k].val]
            ELSE [found |-> FALSE, val |-> <<>>]

\* CACHE.put(k, v, {expirationTtl: ttl}).
KVPut(store, k, v, ttl) ==
    [x \in DOMAIN store \cup {k} |->
        IF x = k THEN [val |-> v, exp |-> now + ttl * 1000] ELSE store[x]]

\* CACHE.delete(k).
KVDelete(store, ks) == [x \in DOMAIN store \ ks |-> store[x]]

-----------------------------------------------------------------------------
(* Requests *)

NaN == -1

\* Number.parseInt of a text: the value of its leading digits.
parseInt(s) == IF DigitRun(s) = 0 THEN NaN ELSE NumVal(SubSeq(s, 1, DigitRun(s)))

NoAuth == [scheme |-> <<>>, token |-> <<>>]
Absent == -2
NoQuery == [page |-> Absent, limit |-> Absent, search |-> <<>>, category |-> <<>>, author |-> <<>>, q |-> <<>>]
NoFile == [present |-> FALSE, type |-> "", size |-> 0, extension |-> <<>>]
NoBody == [title |-> <<>>, content |-> <<>>, status |-> "", name |-> <<>>,
           email |-> <<>>, password |-> "", file |-> NoFile,
           author_name |-> <<>>, author_email |-> <<>>]

\* A request: method, pathname as its segments ("/api/posts" is <<api, posts>>),
\* the CF-Connecting-IP, X-API-Key and Authorization headers (an empty text is
\* an absent header; Authorization is scheme text followed by a token), the
\* query parameters and the JSON body.
Request(method, path, ip, apiKey, auth, query, body) ==
    [method |-> method, path |-> path, ip |-> ip, apiKey |-> apiKey, auth |-> auth,
     query |-> query, body |-> body]

NoRequest == Request("", <<>>, <<>>, <<>>, NoAuth, NoQuery, NoBody)

NoResp == [status |-> 0, error |-> "", data |-> [none |-> TRUE]]

\* A slot: the request, where its handling stands (pc), the handler that
\* fetch chose, the locals that live across an await (count, loc) and the
\* response; and, observed of the request: its place at the rate limiter (rl),
\* the steps of the chain taken (steps), the external calls made (calls), the
\* mutations that had completed when it arrived (since) and what a cache
\* lookup found (obs).
NoRL == [idx |-> 0, first |-> 0, at |-> 0, count |-> 0, last |-> 0, rejected |-> FALSE]
NoObs == [none |-> TRUE]
Idle == [pc |-> <<"idle">>, in |-> NoRequest, handler |-> "", count |-> 0,
         rl |-> NoRL, loc |-> [none |-> TRUE], steps |-> <<>>, calls |-> <<>>,
         since |-> [posts |-> 0, categories |-> 0], obs |-> NoObs, resp |-> NoResp]

\* createResponse(data, status) / createErrorResponse(error, status): the
\* request ends.
Respond(q, status, error, data) ==
    [q EXCEPT !.pc = <<"done">>, !.count = 0, !.loc = [none |-> TRUE],
              !.resp = [status |-> status, error |-> error, data |-> data]]

ErrorResponse(q, error, status) == Respond(q, status, error, [success |-> FALSE])

Step(q, name) == [q EXCEPT !.steps = Append(@, name)]
Call(q, name) == [q EXCEPT !.calls = Append(@, name)]
Observe(q, seen) == [q EXCEPT !.obs = seen @@ @]

-----------------------------------------------------------------------------
(* fetch: CORS and the routes *)

StartsWith(path, a, b) == Len(path) >= 2 /\ path[1] = a /\ HasPrefix(path[2], b)
Includes(path, a) == \E i \in 1..Len(path) : HasPrefix(path[i], a)
Under(path, a, b) == Len(path) >= 3 /\ path[1] = a /\ path[2] = b
PathArg(path) == IF Len(path) >= 3 THEN path[3] ELSE Txt.undefined

\* corsMiddleware without the OPTIONS branch.
corsMiddleware_Never(in) == FALSE

\* corsMiddleware(request): TRUE when it answers (204) itself.
corsMiddleware(in) == in.method = "OPTIONS"

\* The chain of prefix checks of fetch: the handler a pathname goes to.
fetchRoute(in) ==
    LET p == in.path IN
    IF p = <<Txt.health>> THEN "health"
    ELSE IF p = <<Txt.api>> \/ p = <<Txt.api, <<>>>> THEN "doc"
    ELSE IF StartsWith(p, Txt.api, Txt.posts) THEN "handlePosts"
    ELSE IF StartsWith(p, Txt.api, Txt.categories) THEN "handleCategories"
    ELSE IF StartsWith(p, Txt.api, Txt.authors) THEN "handleAuthors"
    ELSE IF Includes(p, Txt.comments) \/ StartsWith(p, Txt.api, Txt.comments) THEN "handleComments"
    ELSE IF StartsWith(p, Txt.api, Txt.media) THEN "handleMedia"
    ELSE IF StartsWith(p, Txt.api, Txt.ai) THEN "handleAI"
    ELSE IF p = <<Txt.api, Txt.search>> THEN "handleSearch"
    ELSE IF StartsWith(p, Txt.api, Txt.auth) THEN "handleAuth"
    ELSE "notFound"

-----------------------------------------------------------------------------
(* The rate limiter *)

\* The bucket name, limit and window each handler passes to rateLimitMiddleware.
DEFAULT_LIMIT == 100
DEFAULT_WINDOW == 3600
POSTS_LIMIT == 100
CATEGORIES_LIMIT == 50
AUTHORS_LIMIT == 50
COMMENTS_LIMIT == 30
MEDIA_LIMIT == 20
AI_LIMIT == 10
AI_WINDOW == 3600
SEARCH_LIMIT == 50
AUTH_LIMIT == 5
AUTH_WINDOW == 900

Bucket(handler) ==
    CASE handler = "handlePosts" -> [key |-> Txt.posts, limit |-> POSTS_LIMIT, window |-> DEFAULT_WINDOW]
      [] handler = "handleCategories" -> [key |-> Txt.categories, limit |-> CATEGORIES_LIMIT, window |-> DEFAULT_WINDOW]
      [] handler = "handleAuthors" -> [key |-> Txt.authors, limit |-> AUTHORS_LIMIT, window |-> DEFAULT_WINDOW]
      [] handler = "handleComments" -> [key |-> Txt.comments, limit |-> COMMENTS_LIMIT, window |-> DEFAULT_WINDOW]
      [] handler = "handleMedia" -> [key |-> Txt.media, limit |-> MEDIA_LIMIT, window |-> DEFAULT_WINDOW]
      [] handler = "handleAI" -> [key |-> Txt.ai, limit |-> AI_LIMIT, window |-> AI_WINDOW]
      [] handler = "handleSearch" -> [key |-> Txt.search, limit |-> SEARCH_LIMIT, window |-> DEFAULT_WINDOW]
      [] handler = "handleAuth" -> [key |-> Txt.auth, limit |-> AUTH_LIMIT, window |-> AUTH_WINDOW]

\* Every client taken for "unknown".
clientIP_Shared(in) == Txt.unknown

\* request.headers.get("CF-Connecting-IP") || "unknown"
clientIP(in) == IF in.ip = <<>> THEN Txt.unknown ELSE in.ip

\* `rate_limit:${key}:${clientIP}`
rateLimitKey(key, in) == Txt.rateLimit \o key \o <<COLON>> \o clientIP(in)

\* current ? Number.parseInt(current) : 0
rateLimitCount(cur) == IF cur.found /\ cur.val /= <<>> THEN parseInt(cur.val) ELSE 0

\* count >= limit with the comparison off by one.
rateLimitExceeded_OffByOne(count, limit) == count > limit

\* if (count >= limit) return 429
rateLimitExceeded(count, limit) == count >= limit

-----------------------------------------------------------------------------
(* Access control *)

\* The configured secrets.
JWT_SECRET == "k1"
ADMIN_API_KEY == <<109, 97, 115, 116, 101, 114>>    \* "master"
WrongKey == <<119, 114, 111, 110, 103>>             \* "wrong"

\* extractBearerToken(authHeader): null (found = FALSE) for an absent header
\* or another scheme, else the text after "Bearer ".
extractBearerToken(auth) ==
    IF auth.scheme = <<>> \/ ~HasPrefix(auth.scheme, Txt.bearer)
    THEN [found |-> FALSE, token |-> <<>>]
    ELSE [found |-> TRUE, token |-> auth.token]

\* authMiddleware(request, env) at Date.now() = ms: the rejection, or the user.
authMiddleware(in, ms) ==
    LET token == extractBearerToken(in.auth)
        user == verifyJWT(token.token, JWT_SECRET, ms)
    IN  IF ~token.found \/ token.token = <<>>
        THEN [ok |-> FALSE, status |-> 401, error |-> "Authorization token required", user |-> NoPayload]
        ELSE IF ~user.ok
        THEN [ok |-> FALSE, status |-> 401, error |-> "Invalid or expired token", user |-> NoPayload]
        ELSE [ok |-> TRUE, status |-> 0, error |-> "", user |-> user.payload]

\* adminMiddleware that lets every request through.
adminMiddleware_Open(in, ms) == [ok |-> TRUE, status |-> 0, error |-> "", user |-> NoPayload]

\* adminMiddleware(request, env): the API key first, else the JWT.
adminMiddleware(in, ms) ==
    IF in.apiKey = ADMIN_API_KEY
    THEN [ok |-> TRUE, status |-> 0, error |-> "", user |-> NoPayload]
    ELSE authMiddleware(in, ms)

-----------------------------------------------------------------------------
(* The handlers' dispatch *)

Op(op, admin) == [op |-> op, admin |-> admin]

\* handlePosts: the operation a request goes to, and whether adminMiddleware
\* runs before it.
handlePosts(in) ==
    LET p == in.path
        m == in.method
    IN  IF m = "GET" /\ p = <<Txt.api, Txt.posts>> THEN Op("getPublishedPosts", FALSE)
        ELSE IF m = "GET" /\ Under(p, Txt.api, Txt.posts) /\ p[3] /= <<>>
            THEN Op("getPostBySlug", FALSE)
        ELSE IF m = "POST" /\ p = <<Txt.api, Txt.posts>> THEN Op("createPost", TRUE)
        ELSE IF m = "PUT" /\ Under(p, Txt.api, Txt.posts) THEN Op("updatePost", TRUE)
        ELSE IF m = "DELETE" /\ Under(p, Txt.api, Txt.posts) THEN Op("deletePost", TRUE)
        ELSE IF m = "POST" /\ Includes(p, Txt.views) THEN Op("incrementViews", FALSE)
        ELSE Op("notFound", FALSE)

\* handleCategories.
handleCategories(in) ==
    LET p == in.path
        m == in.method
    IN  IF m = "GET" /\ p = <<Txt.api, Txt.categories>> THEN Op("getCategories", FALSE)
        ELSE IF m = "GET" /\ Under(p, Txt.api, Txt.categories) /\ p[Len(p)] = Txt.posts
            THEN Op("getPostsByCategory", FALSE)
        ELSE IF m = "POST" /\ p = <<Txt.api, Txt.categories>> THEN Op("createCategory", TRUE)
        ELSE IF m = "PUT" /\ Under(p, Txt.api, Txt.categories) THEN Op("updateCategory", TRUE)
        ELSE IF m = "DELETE" /\ Under(p, Txt.api, Txt.categories) THEN Op("deleteCategory", TRUE)
        ELSE Op("notFound", FALSE)

\* handleAuthors.
handleAuthors(in) ==
    LET p == in.path
        m == in.method
    IN  IF m = "GET" /\ p = <<Txt.api, Txt.authors>> THEN Op("getAuthors", FALSE)
        ELSE IF m = "GET" /\ Under(p, Txt.api, Txt.authors)
            THEN IF Len(p) >= 4 /\ p[4] = Txt.posts
                 THEN Op("getPostsByAuthor", FALSE) ELSE Op("getAuthor", FALSE)
        ELSE Op("notFound", FALSE)

\* handleComments.
handleComments(in) ==
    LET p == in.path
        m == in.method
    IN  IF m = "GET" /\ Includes(p, Txt.comments) THEN Op("getCommentsByPost", FALSE)
        ELSE IF m = "POST" /\ Includes(p, Txt.comments) THEN Op("createComment", FALSE)
        ELSE IF m = "PUT" /\ Under(p, Txt.api, Txt.comments) THEN Op("updateCommentStatus", TRUE)
        ELSE IF m = "DELETE" /\ Under(p, Txt.api, Txt.comments) THEN Op("deleteComment", TRUE)
        ELSE Op("notFound", FALSE)

\* handleMedia.
handleMedia(in) ==
    LET p == in.path
        m == in.method
    IN  IF m = "POST" /\ p = <<Txt.api, Txt.media, Txt.upload>> THEN Op("uploadMedia", TRUE)
        ELSE IF m = "GET" /\ Under(p, Txt.api, Txt.media) THEN Op("getMedia", FALSE)
        ELSE IF m = "DELETE" /\ Under(p, Txt.api, Txt.media) THEN Op("deleteMedia", TRUE)
        ELSE Op("notFound", FALSE)

\* handleAI.
handleAI(in) ==
    LET p == in.path
        m == in.method
    IN  IF m = "POST" /\ p = <<Txt.api, Txt.ai, Txt.generateExcerpt>> THEN Op("generateExcerpt", TRUE)
        ELSE IF m = "POST" /\ p = <<Txt.api, Txt.ai, Txt.generateTags>> THEN Op("generateTags", TRUE)
        ELSE IF m = "POST" /\ p = <<Txt.api, Txt.ai, Txt.contentAnalysis>> THEN Op("analyzeContent", TRUE)
        ELSE Op("notFound", FALSE)

\* handleAuth.
handleAuth(in) ==
    LET p == in.path
        m == in.method
    IN  IF m = "POST" /\ p = <<Txt.api, Txt.auth, Txt.login>> THEN Op("login", FALSE)
        ELSE IF m = "POST" /\ p = <<Txt.api, Txt.auth, Txt.register>> THEN Op("register", FALSE)
        ELSE Op("notFound", FALSE)

\* What runs after the rate limiter, by handler.
Dispatch(handler, in) ==
    CASE handler = "handlePosts" -> handlePosts(in)
      [] handler = "handleCategories" -> handleCategories(in)
      [] handler = "handleAuthors" -> handleAuthors(in)
      [] handler = "handleComments" -> handleComments(in)
      [] handler = "handleMedia" -> handleMedia(in)
      [] handler = "handleAI" -> handleAI(in)
      [] handler = "handleSearch" -> Op("handleSearch", FALSE)
      [] handler = "handleAuth" -> handleAuth(in)

-----------------------------------------------------------------------------
(* The steps every request takes *)

Slots(n) == 1..n

\* fetch(request, env, ctx) is invoked with request `in`: the CORS check and
\* the routes, up to the handler's first await.
fetch(r, in, maxRequests) ==
    LET q == Step([Idle EXCEPT !.in = in, !.since = hist.completed], "cors")
        route == fetchRoute(in)
    IN  /\ req[r].pc[1] \in {"idle", "done"}
        /\ hist.n < maxRequests
        /\ req' = [req EXCEPT ![r] =
              IF corsMiddleware(in) THEN Respond(q, 204, "", [none |-> TRUE])
              ELSE IF route = "health" THEN Respond(q, 200, "", [status |-> "healthy"])
              ELSE IF route = "doc" THEN Respond(q, 200, "", [name |-> "Blog API"])
              ELSE IF route = "notFound" THEN ErrorResponse(q, "Endpoint not found", 404)
              ELSE [q EXCEPT !.pc = <<"rateLimit", "get">>, !.handler = route]]
        /\ hist' = [hist EXCEPT !.n = @ + 1]
        /\ UNCHANGED <<now, kv, db, jwt>>

\* What is known of the requests that reached a counter: when the first one
\* did, how many did and how many were admitted (counted up to limit + 2),
\* when the last one was admitted and whether one was rejected since.
Seen(k) == IF k \in DOMAIN hist.rl THEN hist.rl[k] ELSE [first |-> now, seen |-> 0, admitted |-> 0, last |-> 0, rejected |-> FALSE]

\* rateLimitMiddleware, up to the answer of CACHE.get.
rateLimitGet(r) ==
    LET q == req[r]
        b == Bucket(q.handler)
        k == rateLimitKey(b.key, q.in)
        s == [Seen(k) EXCEPT !.seen = IF @ > b.limit THEN b.limit + 2 ELSE @ + 1]
    IN  /\ q.pc = <<"rateLimit", "get">>
        /\ req' = [req EXCEPT ![r] =
              [Call(Step(q, "ratelimit"), "KV.get") EXCEPT !.pc = <<"rateLimit", "check">>,
                                           !.count = rateLimitCount(KVGet(k)),
                                           !.rl = [idx |-> s.seen, first |-> s.first, at |-> now,
                                                   count |-> rateLimitCount(KVGet(k)),
                                                   last |-> s.last, rejected |-> s.rejected]]]
        /\ hist' = [hist EXCEPT !.rl = [x \in DOMAIN @ \cup {k} |-> IF x = k THEN s ELSE @[x]]]
        /\ UNCHANGED <<now, kv, db, jwt>>

\* rateLimitMiddleware comparing and incrementing the count the store holds
\* at the put, in one step.
rateLimitCheck_Atomic(r) ==
    LET q == req[r]
        b == Bucket(q.handler)
        k == rateLimitKey(b.key, q.in)
        count == rateLimitCount(KVGet(k))
    IN  /\ q.pc = <<"rateLimit", "check">>
        /\ IF rateLimitExceeded(count, b.limit)
           THEN /\ req' = [req EXCEPT ![r] = ErrorResponse(q, "Rate limit exceeded", 429)]
                /\ UNCHANGED kv
                /\ UNCHANGED hist
           ELSE /\ req' = [req EXCEPT ![r] =
                        [Call(q, "KV.put") EXCEPT !.pc = <<"handle">>, !.count = 0]]
                /\ kv' = KVPut(kv, k, Digits(count + 1), b.window)
                /\ hist' = [hist EXCEPT !.rl[k].admitted =
                                           IF @ > b.limit THEN b.limit + 2 ELSE @ + 1]
        /\ UNCHANGED <<now, db, jwt>>

\* rateLimitMiddleware with the put before the comparison.
rateLimitCheck_PutFirst(r) ==
    LET q == req[r]
        b == Bucket(q.handler)
        k == rateLimitKey(b.key, q.in)
    IN  /\ q.pc = <<"rateLimit", "check">>
        /\ kv' = KVPut(kv, k, Digits(q.count + 1), b.window)
        /\ req' = [req EXCEPT ![r] =
              IF rateLimitExceeded(q.count, b.limit)
              THEN ErrorResponse(q, "Rate limit exceeded", 429)
              ELSE [Call(q, "KV.put") EXCEPT !.pc = <<"handle">>, !.count = 0]]
        /\ UNCHANGED <<now, db, jwt, hist>>

\* rateLimitMiddleware, from the answer of CACHE.get: 429, or the put of
\* count + 1 with a fresh time-to-live.
rateLimitCheck(r) ==
    LET q == req[r]
        b == Bucket(q.handler)
        k == rateLimitKey(b.key, q.in)
    IN  /\ q.pc = <<"rateLimit", "check">>
        /\ IF rateLimitExceeded(q.count, b.limit)
           THEN /\ req' = [req EXCEPT ![r] = ErrorResponse(q, "Rate limit exceeded", 429)]
                /\ UNCHANGED kv
                /\ hist' = [hist EXCEPT !.rl[k].rejected = TRUE]
           ELSE /\ req' = [req EXCEPT ![r] =
                        [Call(q, "KV.put") EXCEPT !.pc = <<"handle">>, !.count = 0]]
                /\ kv' = KVPut(kv, k, Digits(q.count + 1), b.window)
                /\ hist' = [hist EXCEPT !.rl[k].admitted =
                                           IF @ > b.limit THEN b.limit + 2 ELSE @ + 1,
                                         !.rl[k].last = now, !.rl[k].rejected = FALSE]
        /\ UNCHANGED <<now, db, jwt>>

\* The handler after the rate limiter: the dispatch on method and pathname
\* and, before a protected operation, adminMiddleware.
handle(r) ==
    LET q == req[r]
        d == Dispatch(q.handler, q.in)
        a == adminMiddleware(q.in, now)
        qa == IF d.admin
              THEN Observe(Step(q, "auth"),
                           [verified |-> verifyJWT(q.in.auth.token, JWT_SECRET, now).ok,
                            principal |-> a.user])
              ELSE q
    IN  /\ q.pc = <<"handle">>
        /\ req' = [req EXCEPT ![r] =
              IF d.admin /\ ~a.ok THEN ErrorResponse(qa, a.error, a.status)
              ELSE IF d.op = "notFound" THEN ErrorResponse(qa, "Not found", 404)
              ELSE [Step(qa, "handler") EXCEPT !.pc = <<d.op, "start">>]]
        /\ UNCHANGED <<now, kv, db, jwt, hist>>

\* Time passes, up to a later instant of `times`.
Tick(times) ==
    /\ \E t \in times : t > now /\ now' = t
    /\ UNCHANGED <<kv, db, req, jwt, hist>>

-----------------------------------------------------------------------------
(* env.DB: the tables.  A row's NULL is 0 (ids and instants are positive). *)

NULL == 0

\* ver counts the successful mutations of a table (it is not a column).
\* objects is what env.BUCKET holds.
EmptyDB == [posts |-> {}, nextPost |-> 1, postsVer |-> 0,
            categories |-> {}, nextCategory |-> 1, categoriesVer |-> 0,
            comments |-> {}, nextComment |-> 1,
            users |-> {}, nextUser |-> 1,
            objects |-> {}]

PostStatuses == {"draft", "published", "archived"}

\* ASCII lower case (what LIKE and the /i flag fold).
Lower(c) == IF c >= 65 /\ c <= 90 THEN c + 32 ELSE c
LowerText(s) == [i \in 1..Len(s) |-> Lower(s[i])]

RECURSIVE toLowerCase(_)
\* String.prototype.toLowerCase, as far as it can yield [a-z]: ASCII, the
\* Kelvin sign (k) and the dotted capital I (i and a combining dot).
toLowerCase(s) ==
    IF Len(s) = 0 THEN <<>>
    ELSE (IF s[1] = 8490 THEN <<107>>
          ELSE IF s[1] = 304 THEN <<105, 775>>
          ELSE <<Lower(s[1])>>) \o toLowerCase(Drop(s, 1))
ContainsText(s, p) == \E i \in 0..(Len(s) - Len(p)) : SubSeq(s, i + 1, i + Len(p)) = p

\* title LIKE '%search%' (the model's searches hold no wildcard).
Like(s, p) == ContainsText(LowerText(s), LowerText(p))

RECURSIVE Collapse(_, _)
\* Every run of c or of DASH becomes a single DASH.
Collapse(s, c) ==
    IF Len(s) = 0 THEN <<>>
    ELSE IF s[1] = c \/ s[1] = DASH
    THEN IF Len(s) >= 2 /\ (s[2] = c \/ s[2] = DASH)
         THEN Collapse(Drop(s, 1), c)
         ELSE <<DASH>> \o Collapse(Drop(s, 1), c)
    ELSE <<s[1]>> \o Collapse(Drop(s, 1), c)

SlugChar(c) == (c >= 97 /\ c <= 122) \/ (c >= 48 /\ c <= 57) \/ c = SPACE \/ c = DASH

\* generateSlug(title): lower case, the characters outside [a-z0-9 -] removed,
\* runs of blanks then runs of dashes made one dash (the final trim finds no
\* blank to remove).
generateSlug(title) == Collapse(Collapse(SelectSeq(toLowerCase(title), SlugChar), SPACE), DASH)

IsWordChar(c) == (c >= 48 /\ c <= 57) \/ (c >= 65 /\ c <= 90) \/ c = 95 \/ (c >= 97 /\ c <= 122)

\* The pattern p, in any case, at position i of s.
MatchesAt(s, i, p) ==
    i + Len(p) - 1 <= Len(s) /\ LowerText(SubSeq(s, i, i + Len(p) - 1)) = p

RECURSIVE sanitizeFrom(_, _)
\* From position i on: a "<script" at a word boundary, up to the first
\* "</script>" after it, is dropped.
sanitizeFrom(s, i) ==
    IF i > Len(s) THEN <<>>
    ELSE LET opens == /\ MatchesAt(s, i, Txt.scriptOpen)
                      /\ i + Len(Txt.scriptOpen) <= Len(s)
                      /\ ~IsWordChar(s[i + Len(Txt.scriptOpen)])
             closes == {j \in (i + Len(Txt.scriptOpen))..Len(s) : MatchesAt(s, j, Txt.scriptClose)}
             close == CHOOSE j \in closes : \A k \in closes : j <= k
         IN  IF opens /\ closes /= {}
             THEN sanitizeFrom(s, close + Len(Txt.scriptClose))
             ELSE <<s[i]>> \o sanitizeFrom(s, i + 1)

\* sanitizeInput(input): replace(/<script\b[^<]*(?:(?!<\/script>)<[^<]*)*<\/script>/gi, "")
sanitizeInput(input) == sanitizeFrom(input, 1)

Min(a, b) == IF a < b THEN a ELSE b
CeilDiv(a, b) == (a + b - 1) \div b

\* ORDER BY published_at DESC (rows of one instant in id order).
Before(a, b) == a.published_at > b.published_at \/ (a.published_at = b.published_at /\ a.id < b.id)

RECURSIVE OrderBy(_)
OrderBy(rows) ==
    IF rows = {} THEN <<>>
    ELSE LET x == CHOOSE x \in rows : \A y \in rows \ {x} : Before(x, y)
         IN  <<x>> \o OrderBy(rows \ {x})

\* LIMIT ? OFFSET ?
LimitOffset(s, limit, offset) ==
    IF offset >= Len(s) THEN <<>> ELSE SubSeq(s, offset + 1, Min(offset + limit, Len(s)))

-----------------------------------------------------------------------------
(* The cache-aside layer of the posts *)

POSTS_TTL == 300
POST_TTL == 600
CATEGORIES_TTL == 1800
MAX_LIMIT == 50
DEFAULT_PAGE_SIZE == 10

\* JSON.stringify(response) / JSON.parse(cached) of a response envelope.
stringify(response) == [json |-> response]
parse(cached) == cached.json

\* `${n}` of a number.
NumText(n) == IF n = NaN THEN <<78, 97, 78>> ELSE Digits(n)

\* parseInt(url.searchParams.get("page") || "1")
pageParam(qy) == IF qy.page = Absent THEN 1 ELSE qy.page

\* Math.min(parseInt(url.searchParams.get("limit") || default), max)
limitParam(qy, default, max) == Min(IF qy.limit = Absent THEN default ELSE qy.limit, max)

\* `posts:${page}:${limit}:${search || ""}:${category || ""}:${author || ""}`
postsCacheKey(qy) ==
    Txt.postsKey \o NumText(pageParam(qy)) \o <<COLON>> \o NumText(limitParam(qy, DEFAULT_PAGE_SIZE, MAX_LIMIT))
    \o <<COLON>> \o qy.search \o <<COLON>> \o qy.category \o <<COLON>> \o qy.author

\* `post:${slug}`
postCacheKey(slug) == Txt.postKey \o slug

\* The keys invalidatePostsCache deletes.
invalidatePostsCacheKeys ==
    {Txt.postsKey \o <<49, 58, 49, 48, 58, 58, 58>>,     \* posts:1:10:::
     Txt.postsKey \o <<49, 58, 50, 48, 58, 58, 58>>,     \* posts:1:20:::
     Txt.postsKey \o <<50, 58, 49, 48, 58, 58, 58>>}     \* posts:2:10:::

\* WHERE p.status = 'published' and the filters of the query.
PostMatches(p, qy) ==
    /\ p.status = "published"
    /\ qy.search = <<>> \/ Like(p.title, qy.search) \/ Like(p.content, qy.search)
    /\ qy.category = <<>>
          \/ \E c \in db.categories : c.id = p.category_id /\ c.slug = qy.category
    /\ qy.author = <<>> \/ p.author_id = parseInt(qy.author)

\* The rows of the list query.
selectPublishedPosts(qy) ==
    LimitOffset(OrderBy({p \in db.posts : PostMatches(p, qy)}),
                limitParam(qy, DEFAULT_PAGE_SIZE, MAX_LIMIT),
                (pageParam(qy) - 1) * limitParam(qy, DEFAULT_PAGE_SIZE, MAX_LIMIT))

\* The rows of the count query.
countPublishedPosts(qy) == Cardinality({p \in db.posts : PostMatches(p, qy)})

\* What a cache lookup found, observed: the entry under the key (live or
\* expired) and the instant of the lookup.
Lookup(q, key) ==
    [q EXCEPT !.obs = IF key \in DOMAIN kv
                      THEN [key |-> key, had |-> TRUE, val |-> kv[key].val,
                            exp |-> kv[key].exp, at |-> now, hit |-> KVLive(key)]
                      ELSE [key |-> key, had |-> FALSE, val |-> <<>>,
                            exp |-> 0, at |-> now, hit |-> FALSE]]

\* getPublishedPosts(request, env): the cache lookup; on a miss the list
\* query, the count query, and the put of the response for 5 minutes.
getPublishedPosts(r) ==
    LET q == req[r]
        qy == q.in.query
        limit == limitParam(qy, DEFAULT_PAGE_SIZE, MAX_LIMIT)
        cacheKey == postsCacheKey(qy)
        cached == KVGet(cacheKey)
    IN  /\ q.pc[1] = "getPublishedPosts"
        /\ CASE q.pc[2] = "start" ->
                /\ req' = [req EXCEPT ![r] =
                      IF cached.found
                      THEN Respond(Lookup(Call(q, "KV.get"), cacheKey), 200, "", parse(cached.val))
                      ELSE [Lookup(Call(q, "KV.get"), cacheKey) EXCEPT !.pc = <<"getPublishedPosts", "query">>]]
                /\ UNCHANGED kv
             [] q.pc[2] = "query" ->
                /\ req' = [req EXCEPT ![r] =
                      [Call(q, "DB") EXCEPT !.pc = <<"getPublishedPosts", "count">>,
                                            !.loc = [results |-> selectPublishedPosts(qy),
                                                     ver |-> db.postsVer]]]
                /\ UNCHANGED kv
             [] q.pc[2] = "count" ->
                /\ req' = [req EXCEPT ![r] =
                      [Call(q, "DB") EXCEPT
                          !.pc = <<"getPublishedPosts", "put">>,
                          !.loc = [response |->
                                     [success |-> TRUE, data |-> q.loc.results,
                                      pagination |->
                                         [page |-> pageParam(qy), limit |-> limit,
                                          total |-> countPublishedPosts(qy),
                                          totalPages |-> CeilDiv(countPublishedPosts(qy), limit)],
                                      ver |-> q.loc.ver]]]]
                /\ UNCHANGED kv
             [] q.pc[2] = "put" ->
                /\ kv' = KVPut(kv, cacheKey, stringify(q.loc.response), POSTS_TTL)
                /\ req' = [req EXCEPT ![r] = Respond(Call(q, "KV.put"), 200, "", q.loc.response)]
        /\ UNCHANGED <<now, db, jwt, hist>>

\* getPostBySlug(slug, env): the cache lookup; on a miss the query and the
\* put of the response for 10 minutes.
getPostBySlug(r) ==
    LET q == req[r]
        slug == q.in.path[3]
        cacheKey == postCacheKey(slug)
        cached == KVGet(cacheKey)
        results == {p \in db.posts : p.slug = slug /\ p.status = "published"}
        response == [success |-> TRUE, data |-> CHOOSE p \in q.loc.results : TRUE,
                     ver |-> q.loc.ver]
    IN  /\ q.pc[1] = "getPostBySlug"
        /\ CASE q.pc[2] = "start" ->
                /\ req' = [req EXCEPT ![r] =
                      IF cached.found
                      THEN Respond(Lookup(Call(q, "KV.get"), cacheKey), 200, "", parse(cached.val))
                      ELSE [Lookup(Call(q, "KV.get"), cacheKey) EXCEPT !.pc = <<"getPostBySlug", "query">>]]
                /\ UNCHANGED kv
             [] q.pc[2] = "query" ->
                /\ req' = [req EXCEPT ![r] =
                      IF results = {}
                      THEN ErrorResponse(Call(q, "DB"), "Post not found", 404)
                      ELSE [Call(q, "DB") EXCEPT !.pc = <<"getPostBySlug", "put">>,
                                                 !.loc = [results |-> results, ver |-> db.postsVer]]]
                /\ UNCHANGED kv
             [] q.pc[2] = "put" ->
                /\ kv' = KVPut(kv, cacheKey, stringify(response), POST_TTL)
                /\ req' = [req EXCEPT ![r] = Respond(Call(q, "KV.put"), 200, "", response)]
        /\ UNCHANGED <<now, db, jwt, hist>>

-----------------------------------------------------------------------------
(* The mutations of the posts *)

Max(a, b) == IF a > b THEN a ELSE b

\* A mutation of `table` that made version `ver` has answered.
Completed(table, ver) ==
    [hist EXCEPT !.completed = [@ EXCEPT ![table] = Max(@, ver)]]

\* The row createPost inserts, published_at set whatever the status.
NewPost_Stamped(body, ms) ==
    LET status == IF body.status = "" THEN "draft" ELSE body.status
    IN  [id |-> db.nextPost, title |-> body.title, slug |-> generateSlug(body.title),
         content |-> sanitizeInput(body.content), status |-> status,
         published_at |-> ms,
         view_count |-> 0, category_id |-> NULL, author_id |-> NULL]

\* The row createPost inserts at instant ms.
NewPost(body, ms) ==
    LET status == IF body.status = "" THEN "draft" ELSE body.status
    IN  [id |-> db.nextPost, title |-> body.title, slug |-> generateSlug(body.title),
         content |-> sanitizeInput(body.content), status |-> status,
         published_at |-> IF status = "published" THEN ms ELSE NULL,
         view_count |-> 0, category_id |-> NULL, author_id |-> NULL]

\* The row updatePost leaves of row p at instant ms.
UpdatedPost(p, body, ms) ==
    [p EXCEPT !.title = IF body.title /= <<>> THEN body.title ELSE @,
              !.slug = IF body.title /= <<>> /\ generateSlug(body.title) /= <<>>
                       THEN generateSlug(body.title) ELSE @,
              !.content = IF body.content /= <<>> THEN sanitizeInput(body.content) ELSE @,
              !.status = IF body.status /= "" THEN body.status ELSE @,
              !.published_at = IF body.status = "published" THEN ms ELSE @]

\* The posts table without UNIQUE on slug.
PostAllowed_NoUnique(p, others) == p.status \in PostStatuses

\* The constraints of the posts table (UNIQUE slug, CHECK status) for row p
\* beside the rows `others`.
PostAllowed(p, others) ==
    p.status \in PostStatuses /\ \A o \in others : o.slug /= p.slug

\* What a mutation keeps across its awaits: the keys still to delete, the
\* answer, the version it made and the slug the post had.
Pending(keys, status, response, ver, slug) ==
    [pending |-> keys, status |-> status, response |-> response, ver |-> ver, slug |-> slug]

\* createPost(request, env): validation and INSERT.
createPost(r) ==
    LET q == req[r]
        body == q.in.body
        row == NewPost(body, now)
    IN  /\ q.pc = <<"createPost", "start">>
        /\ IF body.title = <<>> \/ body.content = <<>>
           THEN /\ req' = [req EXCEPT ![r] = ErrorResponse(q, "Title and content are required", 400)]
                /\ UNCHANGED db
           ELSE IF ~PostAllowed(row, db.posts)
           THEN /\ req' = [req EXCEPT ![r] = ErrorResponse(Call(q, "DB"), "Failed to create post", 500)]
                /\ UNCHANGED db
           ELSE /\ db' = [db EXCEPT !.posts = @ \cup {row}, !.nextPost = @ + 1, !.postsVer = @ + 1]
                /\ req' = [req EXCEPT ![r] =
                      [Call(q, "DB") EXCEPT
                          !.pc = <<"createPost", "invalidate">>,
                          !.loc = Pending(invalidatePostsCacheKeys, 201,
                                          [success |-> TRUE, data |-> row,
                                           message |-> "Post created successfully"],
                                          db.postsVer + 1, <<>>)]]
        /\ UNCHANGED <<now, kv, jwt, hist>>

\* updatePost(request, env, id): the dynamic UPDATE.
updatePost(r) ==
    LET q == req[r]
        body == q.in.body
        id == parseInt(PathArg(q.in.path))
        old == {p \in db.posts : p.id = id}
        row == UpdatedPost(CHOOSE p \in old : TRUE, body, now)
    IN  /\ q.pc = <<"updatePost", "start">>
        /\ IF body.title = <<>> /\ body.content = <<>> /\ body.status = ""
           THEN /\ req' = [req EXCEPT ![r] = ErrorResponse(q, "No fields to update", 400)]
                /\ UNCHANGED db
           ELSE IF old = {}
           THEN /\ req' = [req EXCEPT ![r] = ErrorResponse(Call(q, "DB"), "Post not found", 404)]
                /\ UNCHANGED db
           ELSE IF ~PostAllowed(row, db.posts \ old)
           THEN /\ req' = [req EXCEPT ![r] = ErrorResponse(Call(q, "DB"), "Failed to update post", 500)]
                /\ UNCHANGED db
           ELSE /\ db' = [db EXCEPT !.posts = (@ \ old) \cup {row}, !.postsVer = @ + 1]
                /\ req' = [req EXCEPT ![r] =
                      [Call(q, "DB") EXCEPT
                          !.pc = <<"updatePost", "invalidate">>,
                          !.loc = Pending(invalidatePostsCacheKeys, 200,
                                          [success |-> TRUE, data |-> row,
                                           message |-> "Post updated successfully"],
                                          db.postsVer + 1, (CHOOSE p \in old : TRUE).slug)]]
        /\ UNCHANGED <<now, kv, jwt, hist>>

\* deletePost(env, id): the DELETE.
deletePost(r) ==
    LET q == req[r]
        id == parseInt(PathArg(q.in.path))
        old == {p \in db.posts : p.id = id}
    IN  /\ q.pc = <<"deletePost", "start">>
        /\ IF old = {}
           THEN /\ req' = [req EXCEPT ![r] = ErrorResponse(Call(q, "DB"), "Post not found", 404)]
                /\ UNCHANGED db
           ELSE /\ db' = [db EXCEPT !.posts = @ \ old, !.postsVer = @ + 1]
                /\ req' = [req EXCEPT ![r] =
                      [Call(q, "DB") EXCEPT
                          !.pc = <<"deletePost", "invalidate">>,
                          !.loc = Pending(invalidatePostsCacheKeys, 200,
                                          [success |-> TRUE,
                                           message |-> "Post deleted successfully"],
                                          db.postsVer + 1, (CHOOSE p \in old : TRUE).slug)]]
        /\ UNCHANGED <<now, kv, jwt, hist>>

\* invalidatePostsCache(env) and the answer of the mutation: the deletes of
\* Promise.all complete one at a time, in any order; after the last one the
\* handler answers.  Observed then: whether the post's own entry is cached.
invalidatePostsCache(r) ==
    LET q == req[r]
    IN  /\ q.pc[1] \in {"createPost", "updatePost", "deletePost"}
        /\ q.pc[2] = "invalidate"
        /\ \E k \in q.loc.pending :
              /\ kv' = KVDelete(kv, {k})
              /\ IF q.loc.pending = {k}
                 THEN /\ req' = [req EXCEPT ![r] =
                            Observe(Respond(Call(q, "KV.delete"), q.loc.status, "", q.loc.response),
                                    [slug |-> q.loc.slug,
                                     cached |-> KVLive(postCacheKey(q.loc.slug))])]
                      /\ hist' = Completed("posts", q.loc.ver)
                 ELSE /\ req' = [req EXCEPT ![r] =
                            [Call(q, "KV.delete") EXCEPT !.loc.pending = @ \ {k}]]
                      /\ UNCHANGED hist
        /\ UNCHANGED <<now, db, jwt>>

\* incrementViews(env, id).
incrementViews(r) ==
    LET q == req[r]
        id == parseInt(PathArg(q.in.path))
    IN  /\ q.pc = <<"incrementViews", "start">>
        /\ db' = [db EXCEPT !.posts = {IF p.id = id THEN [p EXCEPT !.view_count = @ + 1] ELSE p : p \in @}]
        /\ req' = [req EXCEPT ![r] =
              Respond(Call(q, "DB"), 200, "", [success |-> TRUE, message |-> "View count incremented"])]
        /\ UNCHANGED <<now, kv, jwt, hist>>

-----------------------------------------------------------------------------
(* The categories *)

categoriesCacheKey == Txt.categoriesAll

\* The rows of getCategories' query: each category with the count of its
\* published posts, by name.
selectCategories ==
    {[id |-> c.id, name |-> c.name, slug |-> c.slug,
      post_count |-> Cardinality({p \in db.posts : p.category_id = c.id /\ p.status = "published"})]
        : c \in db.categories}

\* getCategories(env): the cache lookup; on a miss the query and the put of
\* the response for 30 minutes.
getCategories(r) ==
    LET q == req[r]
        cached == KVGet(categoriesCacheKey)
    IN  /\ q.pc[1] = "getCategories"
        /\ CASE q.pc[2] = "start" ->
                /\ req' = [req EXCEPT ![r] =
                      IF cached.found
                      THEN Respond(Lookup(Call(q, "KV.get"), categoriesCacheKey), 200, "", parse(cached.val))
                      ELSE [Lookup(Call(q, "KV.get"), categoriesCacheKey) EXCEPT !.pc = <<"getCategories", "query">>]]
                /\ UNCHANGED kv
             [] q.pc[2] = "query" ->
                /\ req' = [req EXCEPT ![r] =
                      [Call(q, "DB") EXCEPT
                          !.pc = <<"getCategories", "put">>,
                          !.loc = [response |-> [success |-> TRUE, data |-> selectCategories,
                                                 ver |-> db.categoriesVer]]]]
                /\ UNCHANGED kv
             [] q.pc[2] = "put" ->
                /\ kv' = KVPut(kv, categoriesCacheKey, stringify(q.loc.response), CATEGORIES_TTL)
                /\ req' = [req EXCEPT ![r] = Respond(Call(q, "KV.put"), 200, "", q.loc.response)]
        /\ UNCHANGED <<now, db, jwt, hist>>

\* The constraints of the categories table (UNIQUE name, UNIQUE slug).
CategoryAllowed(c, others) == \A o \in others : o.name /= c.name /\ o.slug /= c.slug

\* The delete of "categories:all" after a mutation, and its answer.
invalidateCategories(r, q) ==
    /\ kv' = KVDelete(kv, {categoriesCacheKey})
    /\ req' = [req EXCEPT ![r] = Respond(Call(q, "KV.delete"), q.loc.status, "", q.loc.response)]
    /\ hist' = Completed("categories", q.loc.ver)
    /\ UNCHANGED db

\* createCategory(request, env).
createCategory(r) ==
    LET q == req[r]
        body == q.in.body
        row == [id |-> db.nextCategory, name |-> body.name, slug |-> generateSlug(body.name)]
    IN  /\ q.pc[1] = "createCategory"
        /\ CASE q.pc[2] = "start" ->
                /\ IF body.name = <<>>
                   THEN /\ req' = [req EXCEPT ![r] = ErrorResponse(q, "Name is required", 400)]
                        /\ UNCHANGED db
                   ELSE IF ~CategoryAllowed(row, db.categories)
                   THEN /\ req' = [req EXCEPT ![r] =
                              ErrorResponse(Call(q, "DB"), "Failed to create category", 500)]
                        /\ UNCHANGED db
                   ELSE /\ db' = [db EXCEPT !.categories = @ \cup {row}, !.nextCategory = @ + 1,
                                            !.categoriesVer = @ + 1]
                        /\ req' = [req EXCEPT ![r] =
                              [Call(q, "DB") EXCEPT
                                  !.pc = <<"createCategory", "invalidate">>,
                                  !.loc = Pending({categoriesCacheKey}, 201,
                                                  [success |-> TRUE, data |-> row,
                                                   message |-> "Category created successfully"],
                                                  db.categoriesVer + 1, <<>>)]]
                /\ UNCHANGED <<kv, hist>>
             [] q.pc[2] = "invalidate" -> invalidateCategories(r, q)
        /\ UNCHANGED <<now, jwt>>

\* updateCategory(request, env, id).
updateCategory(r) ==
    LET q == req[r]
        body == q.in.body
        id == parseInt(PathArg(q.in.path))
        old == {c \in db.categories : c.id = id}
        row == [CHOOSE c \in old : TRUE EXCEPT !.name = body.name, !.slug = generateSlug(body.name)]
    IN  /\ q.pc[1] = "updateCategory"
        /\ CASE q.pc[2] = "start" ->
                /\ IF body.name = <<>>
                   THEN /\ req' = [req EXCEPT ![r] = ErrorResponse(q, "No fields to update", 400)]
                        /\ UNCHANGED db
                   ELSE IF old = {}
                   THEN /\ req' = [req EXCEPT ![r] =
                              ErrorResponse(Call(q, "DB"), "Category not found", 404)]
                        /\ UNCHANGED db
                   ELSE IF ~CategoryAllowed(row, db.categories \ old)
                   THEN /\ req' = [req EXCEPT ![r] =
                              ErrorResponse(Call(q, "DB"), "Failed to update category", 500)]
                        /\ UNCHANGED db
                   ELSE /\ db' = [db EXCEPT !.categories = (@ \ old) \cup {row},
                                            !.categoriesVer = @ + 1]
                        /\ req' = [req EXCEPT ![r] =
                              [Call(q, "DB") EXCEPT
                                  !.pc = <<"updateCategory", "invalidate">>,
                                  !.loc = Pending({categoriesCacheKey}, 200,
                                                  [success |-> TRUE, data |-> row,
                                                   message |-> "Category updated successfully"],
                                                  db.categoriesVer + 1, <<>>)]]
                /\ UNCHANGED <<kv, hist>>
             [] q.pc[2] = "invalidate" -> invalidateCategories(r, q)
        /\ UNCHANGED <<now, jwt>>

\* deleteCategory(env, id).
deleteCategory(r) ==
    LET q == req[r]
        id == parseInt(PathArg(q.in.path))
        old == {c \in db.categories : c.id = id}
    IN  /\ q.pc[1] = "deleteCategory"
        /\ CASE q.pc[2] = "start" ->
                /\ IF old = {}
                   THEN /\ req' = [req EXCEPT ![r] =
                              ErrorResponse(Call(q, "DB"), "Category not found", 404)]
                        /\ UNCHANGED db
                   ELSE /\ db' = [db EXCEPT !.categories = @ \ old, !.categoriesVer = @ + 1]
                        /\ req' = [req EXCEPT ![r] =
                              [Call(q, "DB") EXCEPT
                                  !.pc = <<"deleteCategory", "invalidate">>,
                                  !.loc = Pending({categoriesCacheKey}, 200,
                                                  [success |-> TRUE,
                                                   message |-> "Category deleted successfully"],
                                                  db.categoriesVer + 1, <<>>)]]
                /\ UNCHANGED <<kv, hist>>
             [] q.pc[2] = "invalidate" -> invalidateCategories(r, q)
        /\ UNCHANGED <<now, jwt>>

-----------------------------------------------------------------------------
(* The other protected operations: comments, media, AI helpers *)

\* The request that last wrote a comment's status (not a column): the
\* operation, and whether adminMiddleware had let the request through on the
\* API key or a verified token.
Writer(q, op) ==
    [op |-> op,
     admin |-> /\ \E i \in 1..Len(q.steps) : q.steps[i] = "auth"
               /\ "verified" \in DOMAIN q.obs
               /\ q.in.apiKey = ADMIN_API_KEY \/ q.obs.verified]

CommentStatuses == {"pending", "approved", "spam"}

\* updateCommentStatus(request, env, id).
updateCommentStatus(r) ==
    LET q == req[r]
        id == parseInt(PathArg(q.in.path))
        status == q.in.body.status
        old == {c \in db.comments : c.id = id}
        row == [CHOOSE c \in old : TRUE EXCEPT !.status = status,
                                              !.writer = Writer(q, "updateCommentStatus")]
    IN  /\ q.pc = <<"updateCommentStatus", "start">>
        /\ IF status \notin CommentStatuses
           THEN /\ req' = [req EXCEPT ![r] = ErrorResponse(q, "Invalid status", 400)]
                /\ UNCHANGED db
           ELSE IF old = {}
           THEN /\ req' = [req EXCEPT ![r] = ErrorResponse(Call(q, "DB"), "Comment not found", 404)]
                /\ UNCHANGED db
           ELSE /\ db' = [db EXCEPT !.comments = (@ \ old) \cup {row}]
                /\ req' = [req EXCEPT ![r] =
                      Respond(Call(q, "DB"), 200, "",
                              [success |-> TRUE, data |-> row, message |-> "Comment status updated"])]
        /\ UNCHANGED <<now, kv, jwt, hist>>

\* deleteComment(env, id).
deleteComment(r) ==
    LET q == req[r]
        id == parseInt(PathArg(q.in.path))
        old == {c \in db.comments : c.id = id}
    IN  /\ q.pc = <<"deleteComment", "start">>
        /\ IF old = {}
           THEN /\ req' = [req EXCEPT ![r] = ErrorResponse(Call(q, "DB"), "Comment not found", 404)]
                /\ UNCHANGED db
           ELSE /\ db' = [db EXCEPT !.comments = @ \ old]
                /\ req' = [req EXCEPT ![r] =
                      Respond(Call(q, "DB"), 200, "",
                              [success |-> TRUE, message |-> "Comment deleted successfully"])]
        /\ UNCHANGED <<now, kv, jwt, hist>>

AllowedTypes == {"image/jpeg", "image/png", "image/gif", "image/webp"}
\* The size limit at 6 MB.
MAX_FILE_SIZE_6MB == 6 * 1024 * 1024

\* 5 * 1024 * 1024
MAX_FILE_SIZE == 5 * 1024 * 1024

\* Math.random().toString(36).substring(2, 15), as far as the model draws it.
RandomStrings == {<<97>>, <<98>>}

SLASH == 47

\* `uploads/${timestamp}-${randomString}.${extension}`
uploadKey(ms, randomString, extension) ==
    Txt.uploads \o <<SLASH>> \o Digits(ms) \o <<DASH>> \o randomString \o <<DOT>> \o extension

\* uploadMedia(request, env): the checks of the file, then BUCKET.put.
uploadMedia(r) ==
    LET q == req[r]
        file == q.in.body.file
    IN  /\ q.pc = <<"uploadMedia", "start">>
        /\ IF ~file.present
           THEN /\ req' = [req EXCEPT ![r] = ErrorResponse(q, "No file provided", 400)]
                /\ UNCHANGED db
           ELSE IF file.type \notin AllowedTypes
           THEN /\ req' = [req EXCEPT ![r] = ErrorResponse(q, "Invalid file type. Only JPEG, PNG, GIF, and WebP are allowed", 400)]
                /\ UNCHANGED db
           ELSE IF file.size > MAX_FILE_SIZE
           THEN /\ req' = [req EXCEPT ![r] = ErrorResponse(q, "File too large. Maximum size is 5MB", 400)]
                /\ UNCHANGED db
           ELSE \E randomString \in RandomStrings :
                   LET key == uploadKey(now, randomString, file.extension)
                   IN  /\ db' = [db EXCEPT !.objects = @ \cup {key}]
                       /\ req' = [req EXCEPT ![r] =
                             Respond(Call(q, "BUCKET"), 201, "",
                                     [success |-> TRUE,
                                      data |-> [key |-> key, size |-> file.size, type |-> file.type],
                                      message |-> "File uploaded successfully"])]
        /\ UNCHANGED <<now, kv, jwt, hist>>

\* deleteMedia(env, key), with key = pathname.split("/")[3].
deleteMedia(r) ==
    LET q == req[r]
        key == PathArg(q.in.path)
    IN  /\ q.pc = <<"deleteMedia", "start">>
        /\ db' = [db EXCEPT !.objects = @ \ {key}]
        /\ req' = [req EXCEPT ![r] =
              Respond(Call(q, "BUCKET"), 200, "",
                      [success |-> TRUE, message |-> "File deleted successfully"])]
        /\ UNCHANGED <<now, kv, jwt, hist>>

\* generateExcerpt, generateTags, analyzeContent: the presence check, then
\* env.AI.run, which answers or throws.
aiHelper(r) ==
    LET q == req[r]
        body == q.in.body
        missing == IF q.pc[1] = "generateTags" THEN body.title = <<>> /\ body.content = <<>>
                   ELSE body.content = <<>>
    IN  /\ q.pc[1] \in {"generateExcerpt", "generateTags", "analyzeContent"}
        /\ q.pc[2] = "start"
        /\ IF missing
           THEN req' = [req EXCEPT ![r] =
                   ErrorResponse(q, IF q.pc[1] = "generateTags" THEN "Title or content is required"
                                    ELSE "Content is required", 400)]
           ELSE \E answered \in BOOLEAN :
                   req' = [req EXCEPT ![r] =
                      IF answered
                      THEN Respond(Call(q, "AI"), 200, "", [success |-> TRUE, op |-> q.pc[1]])
                      ELSE ErrorResponse(Call(q, "AI"),
                                         CASE q.pc[1] = "generateExcerpt" -> "Failed to generate excerpt"
                                           [] q.pc[1] = "generateTags" -> "Failed to generate tags"
                                           [] q.pc[1] = "analyzeContent" -> "Failed to analyze content",
                                         500)]
        /\ UNCHANGED <<now, kv, db, jwt, hist>>

-----------------------------------------------------------------------------
(* Login and registration *)

\* \s of a regular expression.
IsSpace(c) ==
    c \in {9, 10, 11, 12, 13, 32, 160, 5760, 8232, 8233, 8239, 8287, 12288, 65279}
        \cup 8192..8202

\* validateEmail(email): /^[^\s@]+@[^\s@]+\.[^\s@]+$/
validateEmail(email) ==
    /\ \A i \in 1..Len(email) : ~IsSpace(email[i])
    /\ Cardinality({i \in 1..Len(email) : email[i] = AT}) = 1
    /\ LET at == CHOOSE i \in 1..Len(email) : email[i] = AT
       IN  /\ at > 1
           /\ \E i \in (at + 2)..(Len(email) - 1) : email[i] = DOT

\* hashPassword(password): the hex of SHA-256.
hashPassword(password) == [sha256 |-> password]

\* verifyPassword(password, hash)
verifyPassword(password, hash) == hashPassword(password) = hash

MIN_PASSWORD == 8

\* login answering an email that has no account with 404 'User not found'.
login_UserNotFound(r) ==
    LET q == req[r]
        email == q.in.body.email
        password == q.in.body.password
        results == {u \in db.users : u.email = email}
        user == CHOOSE u \in results : TRUE
        token == generateJWT([userId |-> user.id, email |-> user.email], JWT_SECRET, now)
        seen == Observe(Call(q, "DB"), [registered |-> results, at |-> now])
    IN  /\ q.pc = <<"login", "start">>
        /\ req' = [req EXCEPT ![r] =
              IF email = <<>> \/ password = ""
              THEN ErrorResponse(q, "Email and password are required", 400)
              ELSE IF ~validateEmail(email)
              THEN ErrorResponse(q, "Invalid email address", 400)
              ELSE IF results = {}
              THEN ErrorResponse(seen, "User not found", 404)
              ELSE IF ~verifyPassword(password, user.password_hash)
              THEN ErrorResponse(seen, "Invalid credentials", 401)
              ELSE IF ~token.ok
              THEN ErrorResponse(seen, "Login failed", 500)
              ELSE Respond(seen, 200, "",
                           [success |-> TRUE,
                            data |-> [token |-> token.token,
                                      user |-> [id |-> user.id, email |-> user.email]],
                            message |-> "Login successful"])]
        /\ UNCHANGED <<now, kv, db, jwt, hist>>

\* login(request, env).  Observed: the rows the SELECT found and the instant.
login(r) ==
    LET q == req[r]
        email == q.in.body.email
        password == q.in.body.password
        results == {u \in db.users : u.email = email}
        user == CHOOSE u \in results : TRUE
        token == generateJWT([userId |-> user.id, email |-> user.email], JWT_SECRET, now)
        seen == Observe(Call(q, "DB"), [registered |-> results, at |-> now])
    IN  /\ q.pc = <<"login", "start">>
        /\ req' = [req EXCEPT ![r] =
              IF email = <<>> \/ password = ""
              THEN ErrorResponse(q, "Email and password are required", 400)
              ELSE IF ~validateEmail(email)
              THEN ErrorResponse(q, "Invalid email address", 400)
              ELSE IF results = {}
              THEN ErrorResponse(seen, "Invalid credentials", 401)
              ELSE IF ~verifyPassword(password, user.password_hash)
              THEN ErrorResponse(seen, "Invalid credentials", 401)
              ELSE IF ~token.ok
              THEN ErrorResponse(seen, "Login failed", 500)
              ELSE Respond(seen, 200, "",
                           [success |-> TRUE,
                            data |-> [token |-> token.token,
                                      user |-> [id |-> user.id, email |-> user.email]],
                            message |-> "Login successful"])]
        /\ UNCHANGED <<now, kv, db, jwt, hist>>

\* register(request, env): the checks and the SELECT; then the INSERT and the
\* token.
register(r) ==
    LET q == req[r]
        email == q.in.body.email
        password == q.in.body.password
        user == [id |-> db.nextUser, email |-> email,
                 password_hash |-> hashPassword(password), api_key |-> db.nextUser]
        token == generateJWT([userId |-> user.id, email |-> user.email], JWT_SECRET, now)
    IN  /\ q.pc[1] = "register"
        /\ CASE q.pc[2] = "start" ->
                /\ req' = [req EXCEPT ![r] =
                      IF email = <<>> \/ password = ""
                      THEN ErrorResponse(q, "Email and password are required", 400)
                      ELSE IF ~validateEmail(email)
                      THEN ErrorResponse(q, "Invalid email address", 400)
                      ELSE IF Len(password) < MIN_PASSWORD
                      THEN ErrorResponse(q, "Password must be at least 8 characters long", 400)
                      ELSE IF \E u \in db.users : u.email = email
                      THEN ErrorResponse(Call(q, "DB"), "User already exists", 409)
                      ELSE [Call(q, "DB") EXCEPT !.pc = <<"register", "insert">>]]
                /\ UNCHANGED db
             [] q.pc[2] = "insert" ->
                IF \E u \in db.users : u.email = email
                THEN /\ req' = [req EXCEPT ![r] =
                           ErrorResponse(Call(q, "DB"), "Registration failed", 500)]
                     /\ UNCHANGED db
                ELSE /\ db' = [db EXCEPT !.users = @ \cup {user}, !.nextUser = @ + 1]
                     /\ req' = [req EXCEPT ![r] =
                           IF ~token.ok
                           THEN ErrorResponse(Call(q, "DB"), "Registration failed", 500)
                           ELSE Respond(Call(q, "DB"), 201, "",
                                        [success |-> TRUE,
                                         data |-> [token |-> token.token,
                                                   user |-> [id |-> user.id, email |-> user.email,
                                                             api_key |-> user.api_key]],
                                         message |-> "Registration successful"])]
        /\ UNCHANGED <<now, kv, jwt, hist>>

-----------------------------------------------------------------------------
(* Comments *)

\* WHERE post_id = ? without the status condition.
selectComments_AnyStatus(postId) == {c \in db.comments : c.post_id = postId}

\* WHERE post_id = ? AND status = 'approved'
selectComments(postId) == {c \in db.comments : c.post_id = postId /\ c.status = "approved"}

\* ORDER BY created_at DESC (rows of one instant in id order).
Newer(a, b) == a.created_at > b.created_at \/ (a.created_at = b.created_at /\ a.id < b.id)

RECURSIVE OrderComments(_)
OrderComments(rows) ==
    IF rows = {} THEN <<>>
    ELSE LET x == CHOOSE x \in rows : \A y \in rows \ {x} : Newer(x, y)
         IN  <<x>> \o OrderComments(rows \ {x})

COMMENTS_PAGE_SIZE == 20
COMMENTS_MAX_LIMIT == 100

\* getCommentsByPost(request, env, postId): the page query and the count
\* query.
getCommentsByPost(r) ==
    LET q == req[r]
        qy == q.in.query
        postId == parseInt(PathArg(q.in.path))
        page == pageParam(qy)
        limit == limitParam(qy, COMMENTS_PAGE_SIZE, COMMENTS_MAX_LIMIT)
        total == Cardinality(selectComments(postId))
    IN  /\ q.pc[1] = "getCommentsByPost"
        /\ CASE q.pc[2] = "start" ->
                req' = [req EXCEPT ![r] =
                   [Call(q, "DB") EXCEPT
                       !.pc = <<"getCommentsByPost", "count">>,
                       !.loc = [results |-> LimitOffset(OrderComments(selectComments(postId)),
                                                        limit, (page - 1) * limit)]]]
             [] q.pc[2] = "count" ->
                req' = [req EXCEPT ![r] =
                   Respond(Observe(Call(q, "DB"), [op |-> "getCommentsByPost"]), 200, "",
                           [success |-> TRUE, data |-> q.loc.results,
                            pagination |-> [page |-> page, limit |-> limit, total |-> total,
                                            totalPages |-> CeilDiv(total, limit)]])]
        /\ UNCHANGED <<now, kv, db, jwt, hist>>

\* content.toLowerCase().includes("spam") with the case kept.
isSpam_CaseKept(content) ==
    \/ ContainsText(content, Txt.spam)
    \/ ContainsText(content, Txt.http)
    \/ ContainsText(content, Txt.https)

\* content.toLowerCase().includes("spam") || content.includes("http://") ||
\* content.includes("https://")
isSpam(content) ==
    \/ ContainsText(toLowerCase(content), Txt.spam)
    \/ ContainsText(content, Txt.http)
    \/ ContainsText(content, Txt.https)

\* createComment(request, env, postId): the checks of the body, the lookup
\* of the post, and the insert.
createComment(r) ==
    LET q == req[r]
        b == q.in.body
        postId == parseInt(PathArg(q.in.path))
        row == [id |-> db.nextComment, post_id |-> postId,
                author_name |-> b.author_name,
                author_email |-> b.author_email,
                content |-> sanitizeInput(b.content),
                status |-> IF isSpam(b.content) THEN "spam" ELSE "pending",
                created_at |-> now,
                writer |-> Writer(q, "createComment")]
    IN  /\ q.pc[1] = "createComment"
        /\ CASE q.pc[2] = "start" ->
                /\ req' = [req EXCEPT ![r] =
                      IF b.author_name = <<>> \/ b.author_email = <<>> \/ b.content = <<>>
                      THEN ErrorResponse(q, "Name, email, and content are required", 400)
                      ELSE IF ~validateEmail(b.author_email)
                      THEN ErrorResponse(q, "Invalid email address", 400)
                      ELSE IF ~\E p \in db.posts : p.id = postId
                      THEN ErrorResponse(Call(q, "DB"), "Post not found", 404)
                      ELSE [Call(q, "DB") EXCEPT !.pc = <<"createComment", "insert">>]]
                /\ UNCHANGED db
             [] q.pc[2] = "insert" ->
                IF \E p \in db.posts : p.id = postId
                THEN /\ db' = [db EXCEPT !.comments = @ \cup {row}, !.nextComment = @ + 1]
                     /\ req' = [req EXCEPT ![r] =
                           Respond(Observe(Call(q, "DB"), [op |-> "createComment", row |-> row]),
                                   201, "",
                                   [success |-> TRUE, data |-> row,
                                    message |-> "Comment submitted for review"])]
                ELSE /\ req' = [req EXCEPT ![r] =
                           ErrorResponse(Call(q, "DB"), "Failed to create comment", 500)]
                     /\ UNCHANGED db
        /\ UNCHANGED <<now, kv, jwt, hist>>

-----------------------------------------------------------------------------
(* External calls that fail *)

\* The call a request is about to await: the store, the call, whether the
\* await stands inside the handler's try, and the message of its catch.
\* rateLimitMiddleware has no try, and the CACHE.get of a cached read stands
\* before the handler's try.
NextCall(q) ==
    LET failed == CASE q.pc[1] = "getPublishedPosts" -> "Failed to fetch posts"
                    [] q.pc[1] = "getPostBySlug" -> "Failed to fetch post"
                    [] q.pc[1] = "getCategories" -> "Failed to fetch categories"
                    [] OTHER -> ""
    IN  IF q.pc = <<"rateLimit", "get">> THEN [store |-> "KV", name |-> "KV.get", caught |-> FALSE, error |-> ""]
        ELSE IF q.pc = <<"rateLimit", "check">>
        THEN IF rateLimitExceeded(q.count, Bucket(q.handler).limit) THEN [store |-> "", name |-> "", caught |-> FALSE, error |-> ""]
             ELSE [store |-> "KV", name |-> "KV.put", caught |-> FALSE, error |-> ""]
        ELSE IF q.pc[1] \in {"getPublishedPosts", "getPostBySlug", "getCategories"}
        THEN CASE q.pc[2] = "start" -> [store |-> "KV", name |-> "KV.get", caught |-> FALSE, error |-> ""]
               [] q.pc[2] = "put" -> [store |-> "KV", name |-> "KV.put", caught |-> TRUE, error |-> failed]
               [] OTHER -> [store |-> "DB", name |-> "DB", caught |-> TRUE, error |-> failed]
        ELSE [store |-> "", name |-> "", caught |-> FALSE, error |-> ""]

\* The store of the awaited call answers.
Available(r) == NextCall(req[r]).store \notin hist.down

\* The promise fetch returned rejects: fetch returns the handler's promise
\* from inside its try without awaiting it, so its catch does not run.
Rejected == [status |-> 0, error |-> "Unhandled", data |-> [thrown |-> TRUE]]

\* The awaited call rejects: the handler's catch answers 500, or, outside a
\* try, the rejection leaves fetch.
externalCallFails(r) ==
    LET q == req[r]
        c == NextCall(q)
        qf == Observe(q, [failed |-> c.name, after |-> q.calls])
    IN  /\ c.store \in hist.down
        /\ req' = [req EXCEPT ![r] =
              IF c.caught THEN ErrorResponse(qf, c.error, 500)
              ELSE [qf EXCEPT !.pc = <<"done">>, !.count = 0, !.loc = [none |-> TRUE],
                              !.resp = Rejected]]
        /\ UNCHANGED <<now, kv, db, jwt, hist>>

\* A store becomes unavailable or available again.
outage ==
    /\ \E down \in SUBSET {"KV", "DB"} : down /= hist.down /\ hist' = [hist EXCEPT !.down = down]
    /\ UNCHANGED <<now, kv, db, req, jwt>>

-----------------------------------------------------------------------------
(* Requests one after another against one counter *)

NoHist == [n |-> 0, rl |-> [k \in {} |-> 0], target |-> NoRequest,
           completed |-> [posts |-> 0, categories |-> 0], down |-> {}]

\* Requests that end right after the rate limiter, one per bucket, from a
\* client with and without CF-Connecting-IP.
SeqInputs ==
    {Request("DELETE", <<Txt.api, Txt.posts, Txt.one>>, Txt.iP1, <<>>, NoAuth, NoQuery, NoBody),
     Request("PUT", <<Txt.api, Txt.categories, Txt.one>>, Txt.iP2, <<>>, NoAuth, NoQuery, NoBody),
     Request("POST", <<Txt.api, Txt.authors>>, <<>>, <<>>, NoAuth, NoQuery, NoBody),
     Request("DELETE", <<Txt.api, Txt.comments, Txt.one>>, Txt.iP1, <<>>, NoAuth, NoQuery, NoBody),
     Request("DELETE", <<Txt.api, Txt.media, Txt.one>>, Txt.iP1, <<>>, NoAuth, NoQuery, NoBody),
     Request("POST", <<Txt.api, Txt.ai, Txt.generateTags>>, Txt.iP2, <<>>, NoAuth, NoQuery, NoBody),
     Request("GET", <<Txt.api, Txt.auth, Txt.login>>, <<>>, <<>>, NoAuth, NoQuery, NoBody)}

SeqTimes == {Epoch + d * 1000 : d \in {450, 899, 900, 3599, 3600}}

InitSeq ==
    /\ now = Epoch
    /\ kv = EmptyKV
    /\ db = EmptyDB
    /\ req = [r \in Slots(1) |-> Idle]
    /\ jwt = [none |-> TRUE]
    /\ hist \in {[NoHist EXCEPT !.target = in] : in \in SeqInputs}

NextSeq ==
    \/ fetch(1, hist.target, SeqRequests)
    \/ rateLimitGet(1)
    \/ rateLimitCheck(1)
    \/ handle(1)
    \/ Tick(SeqTimes)

SpecSeq == InitSeq /\ [][NextSeq]_vars

\* The rate-limit check of the request in slot r is over.
Checked(r) == req[r].rl.idx > 0 /\ req[r].pc /= <<"rateLimit", "check">>
Rejected429(r) == req[r].pc = <<"done">> /\ req[r].resp.status = 429

\* C4: when requests to one counter are issued one after another, each within
\* window seconds of the first, the first `limit` are admitted and the
\* (limit+1)-th is rejected with 429.
C4_LimitThenReject ==
    \A r \in DOMAIN req :
        LET q == req[r]
            b == Bucket(q.handler)
        IN  (Checked(r) /\ q.rl.at - q.rl.first < b.window * 1000) =>
                /\ q.rl.idx <= b.limit => ~Rejected429(r)
                /\ q.rl.idx = b.limit + 1 => Rejected429(r)

\* Request #101 to the posts bucket, within the hour of the first, got 429.
C4_Witness ==
    /\ req[1].handler = "handlePosts" /\ Checked(1)
    /\ req[1].rl.idx = POSTS_LIMIT + 1 /\ req[1].rl.at > req[1].rl.first
    /\ req[1].rl.at - req[1].rl.first < DEFAULT_WINDOW * 1000
    /\ Rejected429(1)

-----------------------------------------------------------------------------
(* Requests one after another against the cache-aside layer *)

Get(path, query) == Request("GET", path, Txt.iP1, <<>>, NoAuth, query, NoBody)
Admin(method, path, body) == Request(method, path, Txt.iP1, ADMIN_API_KEY, NoAuth, NoQuery, body)

PostBody(title, status) == [NoBody EXCEPT !.title = title, !.content = Txt.body, !.status = status]
CategoryBody(name) == [NoBody EXCEPT !.name = name]

\* Reads of the lists and of a post, and the mutations (with the API key)
\* that are to invalidate what the reads cached.
CacheInputs ==
    {Get(<<Txt.api, Txt.posts>>, NoQuery),
     Get(<<Txt.api, Txt.posts>>, [NoQuery EXCEPT !.search = generateSlug(Txt.titleHello)]),
     Get(<<Txt.api, Txt.posts, generateSlug(Txt.titleHello)>>, NoQuery),
     Admin("POST", <<Txt.api, Txt.posts>>, PostBody(Txt.titleNews, "published")),
     Admin("PUT", <<Txt.api, Txt.posts, Txt.one>>, PostBody(Txt.titleHelloBang, "")),
     Admin("DELETE", <<Txt.api, Txt.posts, Txt.one>>, NoBody),
     Request("POST", <<Txt.api, Txt.posts, Txt.one, Txt.views>>, Txt.iP1, <<>>, NoAuth, NoQuery, NoBody)}

\* The instants around the times-to-live.
CacheTimes == {Epoch + d * 1000 : d \in {POSTS_TTL - 1, POSTS_TTL, POST_TTL}}

\* One published post, "Hello", made at Epoch.
SeededDB ==
    [EmptyDB EXCEPT !.posts = {[id |-> 1, title |-> Txt.titleHello, slug |-> generateSlug(Txt.titleHello),
                                content |-> Txt.body, status |-> "published",
                                published_at |-> Epoch, view_count |-> 0,
                                category_id |-> NULL, author_id |-> NULL]},
                    !.nextPost = 2, !.postsVer = 1]

InitCache ==
    /\ now = Epoch
    /\ kv = EmptyKV
    /\ db \in {EmptyDB, SeededDB}
    /\ req = [r \in Slots(1) |-> Idle]
    /\ jwt = [none |-> TRUE]
    /\ hist = NoHist

NextCache ==
    \/ \E in \in CacheInputs : fetch(1, in, CacheRequests)
    \/ rateLimitGet(1)
    \/ rateLimitCheck(1)
    \/ handle(1)
    \/ getPublishedPosts(1)
    \/ getPostBySlug(1)
    \/ createPost(1)
    \/ updatePost(1)
    \/ deletePost(1)
    \/ invalidatePostsCache(1)
    \/ incrementViews(1)
    \/ Tick(CacheTimes)

SpecCache == InitCache /\ [][NextCache]_vars

\* The request in slot r looked its key up and found an entry written under it.
LookedUp(r) == "had" \in DOMAIN req[r].obs /\ req[r].obs.had

Queried(r) == \E i \in 1..Len(req[r].calls) : req[r].calls[i] = "DB"

\* C7: a read of a key before the time-to-live of the entry written under it
\* has elapsed is answered 200 with exactly the content that was written,
\* without a query of the database; a read once the time-to-live has elapsed
\* is a miss and goes on to the database.
C7_CacheRoundTrip ==
    \A r \in DOMAIN req :
        LET q == req[r]
        IN  LookedUp(r) =>
                IF q.obs.at < q.obs.exp
                THEN /\ q.pc = <<"done">>
                     /\ q.resp.status = 200
                     /\ q.resp.data = parse(q.obs.val)
                     /\ ~Queried(r)
                ELSE Queried(r) \/ (q.pc /= <<"done">> /\ q.pc[2] = "query")

\* A list read one second before the entry's time-to-live elapsed was
\* answered from the cache.
C7_Witness ==
    /\ LookedUp(1)
    /\ req[1].obs.key \in invalidatePostsCacheKeys
    /\ req[1].obs.at = req[1].obs.exp - 1000
    /\ req[1].pc = <<"done">> /\ req[1].resp.status = 200
    /\ req[1].resp.data.pagination.total = 1

\* C9: when an update or a delete of a post has answered 200, the cache holds
\* no post:<slug> entry of that post.
C9_DetailEntryDeleted ==
    \A r \in DOMAIN req :
        LET q == req[r]
        IN  (q.pc = <<"done">> /\ q.resp.status = 200 /\ "cached" \in DOMAIN q.obs
                /\ q.in.method \in {"PUT", "DELETE"})
            => ~q.obs.cached

-----------------------------------------------------------------------------
(* Requests one after another through the chain of checks *)

\* Tokens made before the run: one issued at Epoch, one issued at 0 (expired
\* since), one signed with another secret.
ValidToken == generateJWT([userId |-> 1, email |-> Txt.emailA], JWT_SECRET, Epoch).token
ExpiredToken == generateJWT([userId |-> 1, email |-> Txt.emailA], JWT_SECRET, 0).token
ForgedToken == generateJWT([userId |-> 1, email |-> Txt.emailA], "k2", Epoch).token

Bearer(token) == [scheme |-> Txt.bearer, token |-> token]

\* What a request presents: X-API-Key and Authorization.
Credentials ==
    {[apiKey |-> <<>>, auth |-> NoAuth],
     [apiKey |-> WrongKey, auth |-> NoAuth],
     [apiKey |-> ADMIN_API_KEY, auth |-> NoAuth],
     [apiKey |-> ADMIN_API_KEY, auth |-> Bearer(ForgedToken)],
     [apiKey |-> WrongKey, auth |-> Bearer(ValidToken)],
     [apiKey |-> <<>>, auth |-> Bearer(ValidToken)],
     [apiKey |-> <<>>, auth |-> Bearer(ExpiredToken)],
     [apiKey |-> <<>>, auth |-> Bearer(ForgedToken)],
     [apiKey |-> <<>>, auth |-> Bearer(<<>>)],
     [apiKey |-> <<>>, auth |-> [scheme |-> Txt.lowerBearer, token |-> ValidToken]],
     [apiKey |-> <<>>, auth |-> [scheme |-> Txt.basic, token |-> ValidToken]]}

PngFile == [present |-> TRUE, type |-> "image/png", size |-> 1024, extension |-> Txt.png]
SeededObject == uploadKey(Epoch, <<97>>, Txt.png)

\* The protected operations: method, pathname, body.
ProtectedOps ==
    {<<"POST", <<Txt.api, Txt.posts>>, PostBody(Txt.titleNews, "published")>>,
     <<"PUT", <<Txt.api, Txt.posts, Txt.one>>, PostBody(Txt.titleHelloBang, "")>>,
     <<"DELETE", <<Txt.api, Txt.posts, Txt.one>>, NoBody>>,
     <<"POST", <<Txt.api, Txt.categories>>, CategoryBody(Txt.titleNews)>>,
     <<"PUT", <<Txt.api, Txt.categories, Txt.one>>, CategoryBody(Txt.titleNews)>>,
     <<"DELETE", <<Txt.api, Txt.categories, Txt.one>>, NoBody>>,
     <<"PUT", <<Txt.api, Txt.comments, Txt.one, Txt.status>>, [NoBody EXCEPT !.status = "approved"]>>,
     <<"DELETE", <<Txt.api, Txt.comments, Txt.one>>, NoBody>>,
     <<"POST", <<Txt.api, Txt.media, Txt.upload>>, [NoBody EXCEPT !.file = PngFile]>>,
     <<"DELETE", <<Txt.api, Txt.media, Txt.uploads, Drop(SeededObject, Len(Txt.uploads) + 1)>>, NoBody>>,
     <<"POST", <<Txt.api, Txt.ai, Txt.generateExcerpt>>, [NoBody EXCEPT !.content = Txt.body]>>,
     <<"POST", <<Txt.api, Txt.ai, Txt.generateTags>>, [NoBody EXCEPT !.title = Txt.titleHello]>>,
     <<"POST", <<Txt.api, Txt.ai, Txt.contentAnalysis>>, [NoBody EXCEPT !.content = Txt.body]>>}

\* Every protected operation with every credential, and requests that no
\* access control stands before.
GateInputs ==
    {Request(op[1], op[2], Txt.iP1, c.apiKey, c.auth, NoQuery, op[3]) :
        op \in ProtectedOps, c \in Credentials}
    \cup {Request("OPTIONS", op[2], Txt.iP1, c.apiKey, c.auth, NoQuery, NoBody) :
            op \in ProtectedOps, c \in {[apiKey |-> <<>>, auth |-> NoAuth],
                                        [apiKey |-> ADMIN_API_KEY, auth |-> NoAuth]}}
    \cup {Get(<<Txt.health>>, NoQuery), Get(<<Txt.api>>, NoQuery),
          Get(<<Txt.nowhere>>, NoQuery),
          Get(<<Txt.api, Txt.posts>>, NoQuery), Get(<<Txt.api, Txt.categories>>, NoQuery),
          Request("PATCH", <<Txt.api, Txt.posts>>, Txt.iP1, <<>>, NoAuth, NoQuery, NoBody)}

\* The last instant ValidToken is accepted at, and the second after.
GateTimes == {(Epoch \div 1000 + SECONDS_24H) * 1000 + d : d \in {999, 1000}}

\* A comment as createComment stores it.
SeededComment ==
    [id |-> 1, post_id |-> 1, author_name |-> Txt.ann, author_email |-> Txt.emailA,
     content |-> Txt.nice, status |-> "pending", created_at |-> Epoch,
     writer |-> [op |-> "createComment", admin |-> FALSE]]

\* A post, a category, a comment and an object to act on.
GateDB ==
    [SeededDB EXCEPT !.categories = {[id |-> 1, name |-> Txt.titleHello,
                                      slug |-> generateSlug(Txt.titleHello)]},
                     !.nextCategory = 2, !.categoriesVer = 1,
                     !.comments = {SeededComment},
                     !.nextComment = 2,
                     !.objects = {SeededObject}]

InitGate ==
    /\ now = Epoch
    /\ kv = EmptyKV
    /\ db = GateDB
    /\ req = [r \in Slots(1) |-> Idle]
    /\ jwt = [none |-> TRUE]
    /\ hist \in {[NoHist EXCEPT !.target = in] : in \in GateInputs}

NextGate ==
    \/ fetch(1, hist.target, GateRequests)
    \/ rateLimitGet(1)
    \/ rateLimitCheck(1)
    \/ handle(1)
    \/ getPublishedPosts(1)
    \/ getCategories(1)
    \/ createPost(1)
    \/ updatePost(1)
    \/ deletePost(1)
    \/ invalidatePostsCache(1)
    \/ createCategory(1)
    \/ updateCategory(1)
    \/ deleteCategory(1)
    \/ updateCommentStatus(1)
    \/ deleteComment(1)
    \/ uploadMedia(1)
    \/ deleteMedia(1)
    \/ aiHelper(1)
    \/ Tick(GateTimes)

SpecGate == InitGate /\ [][NextGate]_vars

\* The request in slot r is for a protected operation and is past the
\* access-control check.
Protected(r) == req[r].handler /= "" /\ Dispatch(req[r].handler, req[r].in).admin
Took(r, step) == \E i \in 1..Len(req[r].steps) : req[r].steps[i] = step
Ended(r, status, error) ==
    /\ req[r].pc = <<"done">>
    /\ req[r].resp.status = status /\ req[r].resp.error = error
    /\ ~Took(r, "handler")

\* The calls the rate limiter makes when it admits a request.
RateLimitCalls == <<"KV.get", "KV.put">>

KeyMatches(r) == req[r].in.apiKey = ADMIN_API_KEY
HasBearer(r) == HasPrefix(req[r].in.auth.scheme, Txt.bearer) /\ req[r].in.auth.token /= <<>>

\* C5: a protected operation runs its handler only if X-API-Key equals the
\* master key (then with no principal) or Authorization carries "Bearer "
\* and a token verifyJWT accepts; without a bearer token the request ends 401
\* "Authorization token required", with a token that fails verification 401
\* "Invalid or expired token", and in both cases nothing but the rate limiter
\* has touched a store.
C5_AdminGate ==
    \A r \in DOMAIN req :
        (Protected(r) /\ Took(r, "auth")) =>
            /\ Took(r, "handler") => KeyMatches(r) \/ (HasBearer(r) /\ req[r].obs.verified)
            /\ KeyMatches(r) => Took(r, "handler") /\ req[r].obs.principal = NoPayload
            /\ (~KeyMatches(r) /\ ~HasBearer(r)) =>
                  /\ Ended(r, 401, "Authorization token required")
                  /\ req[r].calls = RateLimitCalls
            /\ (~KeyMatches(r) /\ HasBearer(r) /\ ~req[r].obs.verified) =>
                  /\ Ended(r, 401, "Invalid or expired token")
                  /\ req[r].calls = RateLimitCalls

\* A delete of a post with a valid bearer token and a wrong API key reached
\* the database.
C5_Witness ==
    /\ Protected(1) /\ Took(1, "auth")
    /\ ~KeyMatches(1) /\ HasBearer(1) /\ req[1].obs.verified
    /\ req[1].in.method = "DELETE" /\ req[1].handler = "handlePosts"
    /\ req[1].pc = <<"done">> /\ req[1].resp.status = 200
    /\ db.posts = {}

\* The orders the steps of a request are taken in.
StepOrders ==
    {<<"cors">>, <<"cors", "ratelimit">>, <<"cors", "ratelimit", "auth">>,
     <<"cors", "ratelimit", "handler">>, <<"cors", "ratelimit", "auth", "handler">>}

\* C6: the steps of a request run in the order CORS check, rate-limit check,
\* access-control check (protected operations only), handler, each at most
\* once; a rejection by a check ends the request with no later step; an
\* OPTIONS request ends at the CORS step with 204, no counter read or written
\* and no access-control check.  (/health, /api and an unmatched pathname are
\* answered by fetch itself right after the CORS step.)
C6_StepOrder ==
    \A r \in DOMAIN req :
        req[r].pc /= <<"idle">> =>
            /\ req[r].steps \in StepOrders
            /\ req[r].in.method = "OPTIONS" =>
                  /\ req[r].pc = <<"done">> /\ req[r].resp.status = 204
                  /\ req[r].steps = <<"cors">> /\ req[r].calls = <<>>
            /\ Rejected429(r) =>
                  req[r].steps = <<"cors", "ratelimit">> /\ req[r].calls = <<"KV.get">>
            /\ (req[r].pc = <<"done">> /\ req[r].resp.status = 401) =>
                  /\ req[r].steps = <<"cors", "ratelimit", "auth">>
                  /\ req[r].calls = RateLimitCalls
            /\ Took(r, "handler") => (Took(r, "auth") <=> Protected(r))
            /\ ~Took(r, "handler") =>
                  \E n \in 0..2 : req[r].calls = SubSeq(RateLimitCalls, 1, n)

\* The 11th AI request of the hour, with the API key, was rejected by the rate
\* limiter before any access-control check.
C6_Witness ==
    /\ req[1].handler = "handleAI" /\ KeyMatches(1)
    /\ Rejected429(1) /\ req[1].rl.idx = AI_LIMIT + 1
    /\ req[1].steps = <<"cors", "ratelimit">>

\* C15: a request answered 400 or 401 has made no call to the database, the
\* bucket or the key-value store (the rate-limit counter included).
C15_NoCallBeforeRejection ==
    \A r \in DOMAIN req :
        req[r].pc = <<"done">> /\ req[r].resp.status \in {400, 401}
        => req[r].calls = <<>>

-----------------------------------------------------------------------------
(* Registrations and logins one after another *)

Credential(email, password) == [NoBody EXCEPT !.email = email, !.password = password]
Post(path, body) == Request("POST", path, Txt.iP1, <<>>, NoAuth, NoQuery, body)

AuthEmails == {Txt.emailA, Txt.emailQuote, Txt.emailGreek}
AuthPasswords == {"password1", "password2"}

AuthInputs ==
    {Post(<<Txt.api, Txt.auth, Txt.register>>, Credential(e, p)) :
        e \in AuthEmails \cup {Txt.abc}, p \in {"password1", "short"}}
    \cup {Post(<<Txt.api, Txt.auth, Txt.login>>, Credential(e, p)) :
            e \in AuthEmails \cup {Txt.abc}, p \in AuthPasswords \cup {""}}

AuthTimes == {Epoch + 1000}

InitAuth ==
    /\ now = Epoch
    /\ kv = EmptyKV
    /\ db = EmptyDB
    /\ req = [r \in Slots(1) |-> Idle]
    /\ jwt = [none |-> TRUE]
    /\ hist = NoHist

NextAuth ==
    \/ \E in \in AuthInputs : fetch(1, in, AuthRequests)
    \/ rateLimitGet(1)
    \/ rateLimitCheck(1)
    \/ handle(1)
    \/ login(1)
    \/ register(1)
    \/ Tick(AuthTimes)

SpecAuth == InitAuth /\ [][NextAuth]_vars

\* The login in slot r, with a password, has found its email registered.
LoggedIn(r) ==
    /\ req[r].pc = <<"done">> /\ "registered" \in DOMAIN req[r].obs
    /\ req[r].obs.registered /= {}

\* C10: a login with a registered email and a wrong password is answered 401
\* with success:false and no token; with the password of the registration it
\* is answered 200 with a token that carries the submitted email and that
\* verifyJWT accepts.
C10_Login ==
    \A r \in DOMAIN req :
        LoggedIn(r) =>
            LET q == req[r]
                user == CHOOSE u \in q.obs.registered : TRUE
            IN  IF verifyPassword(q.in.body.password, user.password_hash)
                THEN /\ q.resp.status = 200
                     /\ "data" \in DOMAIN q.resp.data
                     /\ LET v == verifyJWT(q.resp.data.data.token, JWT_SECRET, q.obs.at)
                        IN  v.ok /\ v.payload.email = q.in.body.email
                ELSE /\ q.resp.status = 401
                     /\ q.resp.data = [success |-> FALSE]

-----------------------------------------------------------------------------
(* What a failed login tells *)

\* The login in slot r, with a well-formed email and a password, has run its
\* SELECT and the password is not that of an account of the email.
WrongPassword(r) ==
    /\ req[r].pc = <<"done">> /\ "registered" \in DOMAIN req[r].obs
    /\ \A u \in req[r].obs.registered :
          ~verifyPassword(req[r].in.body.password, u.password_hash)

\* C30: a login with a well-formed email and a wrong password gets the same
\* response, 401 'Invalid credentials' with success:false, whether or not the
\* email has an account.
C30_SameRefusal ==
    \A r \in DOMAIN req :
        WrongPassword(r) =>
            req[r].resp = [status |-> 401, error |-> "Invalid credentials",
                           data |-> [success |-> FALSE]]

\* A login refused for an email without an account, while another email is
\* registered with the password submitted.
C30_Witness ==
    /\ WrongPassword(1) /\ req[1].obs.registered = {}
    /\ req[1].resp.status = 401
    /\ \E u \in db.users : verifyPassword(req[1].in.body.password, u.password_hash)

-----------------------------------------------------------------------------
(* Concurrent list reads and mutations *)

RaceInputs ==
    {Get(<<Txt.api, Txt.posts>>, NoQuery),
     Admin("POST", <<Txt.api, Txt.posts>>, PostBody(Txt.titleNews, "published")),
     Admin("DELETE", <<Txt.api, Txt.posts, Txt.one>>, NoBody),
     Get(<<Txt.api, Txt.categories>>, NoQuery),
     Admin("POST", <<Txt.api, Txt.categories>>, CategoryBody(Txt.titleNews))}

InitRace ==
    /\ now = Epoch
    /\ kv = EmptyKV
    /\ db = SeededDB
    /\ req = [r \in Slots(2) |-> Idle]
    /\ jwt = [none |-> TRUE]
    /\ hist = NoHist

NextRace ==
    \/ \E r \in Slots(2), in \in RaceInputs : fetch(r, in, RaceRequests)
    \/ \E r \in Slots(2) : rateLimitGet(r)
    \/ \E r \in Slots(2) : rateLimitCheck(r)
    \/ \E r \in Slots(2) : handle(r)
    \/ \E r \in Slots(2) : getPublishedPosts(r)
    \/ \E r \in Slots(2) : createPost(r)
    \/ \E r \in Slots(2) : deletePost(r)
    \/ \E r \in Slots(2) : invalidatePostsCache(r)
    \/ \E r \in Slots(2) : getCategories(r)
    \/ \E r \in Slots(2) : createCategory(r)

SpecRace == InitRace /\ [][NextRace]_vars

\* The mutations of the resource behind a key that had answered when the
\* request in slot r arrived.
Since(r) ==
    IF req[r].obs.key = categoriesCacheKey THEN req[r].since.categories
    ELSE req[r].since.posts

\* C8: a read of a known list key (posts:1:10:::, posts:1:20:::,
\* posts:2:10:::, categories:all) that arrives after a create, update or
\* delete of the resource has answered is never answered from the cache with
\* data computed before that mutation.
C8_NoStaleListAfterMutation ==
    \A r \in DOMAIN req :
        (LookedUp(r) /\ req[r].obs.hit
            /\ req[r].obs.key \in invalidatePostsCacheKeys \cup {categoriesCacheKey})
        => parse(req[r].obs.val).ver >= Since(r)

-----------------------------------------------------------------------------
(* Requests one after another on the comments of a post *)

CommentRequests == 3

CommentBody(name, email, content) ==
    [NoBody EXCEPT !.author_name = name, !.author_email = email, !.content = content]

\* The texts a comment is sent with.
CommentContents == {Txt.nice, Txt.spamUrl, Txt.upperSpam, Txt.httpLink, Txt.upperScheme}

\* "/api/posts/1/comments", the pathname of the comments of post 1, and
\* "/api/comments/1".
PostCommentsPath == <<Txt.api, Txt.posts, Txt.one, Txt.comments>>
CommentsPath == <<Txt.api, Txt.comments, Txt.one>>

\* Comments sent and listed under both pathnames, with bodies the checks
\* refuse and a post that does not exist; status updates and a deletion with
\* and without the API key.
CommentInputs ==
    {Post(PostCommentsPath, CommentBody(Txt.ann, Txt.emailA, Txt.nice)),
     Get(PostCommentsPath, NoQuery),
     Get(CommentsPath, NoQuery),
     Post(CommentsPath, CommentBody(<<>>, Txt.emailA, Txt.nice)),
     Post(CommentsPath, CommentBody(Txt.ann, Txt.nowhere, Txt.nice)),
     Post(<<Txt.api, Txt.comments, Txt.nine>>, CommentBody(Txt.ann, Txt.emailA, Txt.nice)),
     Admin("DELETE", CommentsPath, NoBody),
     Request("PUT", CommentsPath \o <<Txt.status>>, Txt.iP1, <<>>, NoAuth, NoQuery,
             [NoBody EXCEPT !.status = "approved"])}
    \cup {Post(CommentsPath, CommentBody(Txt.ann, Txt.emailA, c)) : c \in CommentContents}
    \cup {Admin("PUT", <<Txt.api, Txt.comments, id, Txt.status>>, [NoBody EXCEPT !.status = s]) :
             id \in {Txt.one, Txt.two}, s \in {"approved", "spam", "published"}}

CommentTimes == {Epoch + 1000}

InitComments ==
    /\ now = Epoch
    /\ kv = EmptyKV
    /\ db = [SeededDB EXCEPT !.comments = {SeededComment}, !.nextComment = 2]
    /\ req = [r \in Slots(1) |-> Idle]
    /\ jwt = [none |-> TRUE]
    /\ hist = NoHist

NextComments ==
    \/ \E in \in CommentInputs : fetch(1, in, CommentRequests)
    \/ rateLimitGet(1)
    \/ rateLimitCheck(1)
    \/ handle(1)
    \/ getPostBySlug(1)
    \/ getCommentsByPost(1)
    \/ createComment(1)
    \/ updateCommentStatus(1)
    \/ deleteComment(1)
    \/ Tick(CommentTimes)

SpecComments == InitComments /\ [][NextComments]_vars

\* The operation the handler of the request in slot r went to.
Went(r) == Dispatch(req[r].handler, req[r].in).op

\* C11: a POST to /api/posts/:id/comments that has reached its handler is at
\* createComment, a GET at getCommentsByPost, with no access control before
\* it; neither is at an operation of the posts handler or answered "Not found".
C11_CommentsRouted ==
    req[1].in.path = PostCommentsPath /\ req[1].handler /= ""
    => /\ req[1].handler = "handleComments"
       /\ ~Took(1, "auth")
       /\ req[1].in.method = "POST" => Went(1) = "createComment"
       /\ req[1].in.method = "GET" => Went(1) = "getCommentsByPost"
       /\ req[1].resp.error /= "Not found"

\* The request in slot r was answered by operation op.
Answered(r, op) ==
    /\ req[r].pc = <<"done">>
    /\ "op" \in DOMAIN req[r].obs
    /\ req[r].obs.op = op

Listed(r) == {req[r].resp.data.data[i] : i \in 1..Len(req[r].resp.data.data)}

\* C12: every comment the listing returns is a stored comment of status
\* 'approved' whose status was last written by a status update that
\* adminMiddleware let through; a comment whose status createComment wrote is
\* 'pending' or 'spam'.
C12_OnlyApprovedListed ==
    /\ \A c \in db.comments : c.writer.op = "createComment" => c.status \in {"pending", "spam"}
    /\ Answered(1, "getCommentsByPost")
       => \A c \in Listed(1) :
             /\ c \in db.comments
             /\ c.status = "approved"
             /\ c.writer.op = "updateCommentStatus" /\ c.writer.admin

\* A listing returned a comment.
C12_Witness == Answered(1, "getCommentsByPost") /\ Listed(1) /= {}

\* text contains word (given in lower case) in any mix of ASCII cases.
ContainsNoCase(text, word) ==
    \E i \in 0..(Len(text) - Len(word)) :
        \A k \in 1..Len(word) : text[i + k] \in {word[k], word[k] - 32}

\* C13: the comment createComment stored has status 'spam' if the content
\* sent contains "http://", "https://" or, in any case, "spam", and 'pending'
\* otherwise; "https://spam.example" is stored as 'spam'.
C13_SpamStatus ==
    Answered(1, "createComment")
    => LET content == req[1].in.body.content
           row == req[1].obs.row
       IN  /\ row \in db.comments
           /\ req[1].resp.status = 201
           /\ row.status = IF \/ ContainsText(content, Txt.http)
                              \/ ContainsText(content, Txt.https)
                              \/ ContainsNoCase(content, Txt.spam)
                           THEN "spam" ELSE "pending"
           /\ content = Txt.spamUrl => row.status = "spam"

\* "SPAM" was stored as 'spam'.
C13_Witness ==
    /\ Answered(1, "createComment")
    /\ req[1].in.body.content = Txt.upperSpam
    /\ req[1].obs.row.status = "spam"

-----------------------------------------------------------------------------
(* Uploads one after another *)

MediaRequests == 3

File(type, size) == [present |-> TRUE, type |-> type, size |-> size, extension |-> Txt.png]

\* Files at, just above and well above 5 MB, of allowed and other types.
MediaFiles ==
    {NoFile, PngFile,
     File("image/jpeg", 5 * 1024 * 1024), File("image/png", 5 * 1024 * 1024 + 1),
     File("image/png", 6 * 1024 * 1024), File("image/webp", 6 * 1024 * 1024),
     File("image/svg+xml", 1024), File("application/pdf", 6 * 1024 * 1024),
     File("", 1024), File("IMAGE/PNG", 1024)}

UploadPath == <<Txt.api, Txt.media, Txt.upload>>

MediaInputs ==
    {Admin("POST", UploadPath, [NoBody EXCEPT !.file = f]) : f \in MediaFiles}
    \cup {Post(UploadPath, [NoBody EXCEPT !.file = PngFile]),
          Admin("DELETE", <<Txt.api, Txt.media, Txt.uploads>>, NoBody)}

MediaTimes == {Epoch + 1}

InitMedia ==
    /\ now = Epoch
    /\ kv = EmptyKV
    /\ db = EmptyDB
    /\ req = [r \in Slots(1) |-> Idle]
    /\ jwt = [none |-> TRUE]
    /\ hist = NoHist

NextMedia ==
    \/ \E in \in MediaInputs : fetch(1, in, MediaRequests)
    \/ rateLimitGet(1)
    \/ rateLimitCheck(1)
    \/ handle(1)
    \/ uploadMedia(1)
    \/ deleteMedia(1)
    \/ Tick(MediaTimes)

SpecMedia == InitMedia /\ [][NextMedia]_vars

-----------------------------------------------------------------------------
(* Cached reads one after another while stores fail *)

FailRequests == 3

FailInputs ==
    {Get(<<Txt.api, Txt.posts>>, NoQuery),
     Get(<<Txt.api, Txt.posts, generateSlug(Txt.titleHello)>>, NoQuery),
     Get(<<Txt.api, Txt.posts, Txt.nine>>, NoQuery),
     Get(<<Txt.api, Txt.categories>>, NoQuery)}

InitFail ==
    /\ now = Epoch
    /\ kv = EmptyKV
    /\ db = SeededDB
    /\ req = [r \in Slots(1) |-> Idle]
    /\ jwt = [none |-> TRUE]
    /\ hist = NoHist

NextFail ==
    \/ \E in \in FailInputs : fetch(1, in, FailRequests)
    \/ Available(1) /\ rateLimitGet(1)
    \/ Available(1) /\ rateLimitCheck(1)
    \/ handle(1)
    \/ Available(1) /\ getPublishedPosts(1)
    \/ Available(1) /\ getPostBySlug(1)
    \/ Available(1) /\ getCategories(1)
    \/ externalCallFails(1)
    \/ outage

SpecFail == InitFail /\ [][NextFail]_vars

\* A call of the request in slot r to `store` failed, and the request ended.
Failed(r, calls) ==
    /\ req[r].pc = <<"done">>
    /\ "failed" \in DOMAIN req[r].obs
    /\ req[r].obs.failed \in calls

\* C16: a read of the posts list, of a post that exists or of the categories
\* list during which a call to the cache failed is answered 200 with the
\* envelope built from the tables as they are.
C16_CacheFailureTolerated ==
    /\ Failed(1, {"KV.get", "KV.put"})
    /\ req[1].handler \in {"handlePosts", "handleCategories"}
    /\ req[1].in.path /= <<Txt.api, Txt.posts, Txt.nine>>
    => /\ req[1].resp.status = 200
       /\ "success" \in DOMAIN req[1].resp.data
       /\ req[1].resp.data.success
       /\ req[1].resp.data.ver = IF req[1].handler = "handlePosts"
                                 THEN db.postsVer ELSE db.categoriesVer

\* The messages of the catch blocks.
GenericErrors ==
    {"Internal server error", "Failed to fetch posts", "Failed to fetch post",
     "Failed to fetch categories"}

\* C17: a request that has ended has a response, and one during which an
\* external call failed has the 500 envelope with success false and the
\* message of a catch block, the failed call being the last of the request.
C17_FailureIs500 ==
    /\ req[1].pc = <<"done">> => req[1].resp.status /= 0
    /\ Failed(1, {"KV.get", "KV.put", "DB"})
       => /\ req[1].resp.status = 500
          /\ req[1].resp.data = [success |-> FALSE]
          /\ req[1].resp.error \in GenericErrors
          /\ req[1].calls = req[1].obs.after

-----------------------------------------------------------------------------
(* The rate limiter's counter *)

\* C19: a request whose rate-limit check finds count >= limit ends with 429
\* having taken the CORS and rate-limit steps only and made the one get; and
\* no step of the rate limiter up to the rejection changes the key-value
\* store, so the counter's value and expiry are as they were.
C19_RejectionLeavesCounter ==
    [][\A r \in DOMAIN req :
          /\ req[r].pc = <<"rateLimit", "get">> /\ req'[r] /= req[r] => kv' = kv
          /\ /\ req[r].pc = <<"rateLimit", "check">>
             /\ req[r].count >= Bucket(req[r].handler).limit
             /\ req'[r] /= req[r]
             => /\ kv' = kv
                /\ req'[r].pc = <<"done">> /\ req'[r].resp.status = 429
                /\ req'[r].steps = <<"cors", "ratelimit">>
                /\ req'[r].calls = <<"KV.get">>]_vars

\* A request to the auth bucket got 429 and the counter still holds the limit.
C19_Witness ==
    /\ req[1].handler = "handleAuth" /\ Rejected429(1)
    /\ kv[rateLimitKey(Txt.auth, req[1].in)].val = Digits(AUTH_LIMIT)
    /\ req[1].rl.idx = AUTH_LIMIT + 2

-----------------------------------------------------------------------------
(* Two requests at a time against one counter *)

BurstRequests == 7

\* A request to the auth bucket (limit 5), from one client.
BurstInput == Get(<<Txt.api, Txt.auth, Txt.login>>, NoQuery)

InitBurst ==
    /\ now = Epoch
    /\ kv = EmptyKV
    /\ db = EmptyDB
    /\ req = [r \in Slots(2) |-> Idle]
    /\ jwt = [none |-> TRUE]
    /\ hist = NoHist

NextBurst ==
    \/ \E r \in Slots(2) : fetch(r, BurstInput, BurstRequests)
    \/ \E r \in Slots(2) : rateLimitGet(r)
    \/ \E r \in Slots(2) : rateLimitCheck(r)
    \/ \E r \in Slots(2) : handle(r)

SpecBurst == InitBurst /\ [][NextBurst]_vars

\* The request in slot r was admitted by the rate limiter.
Admitted(r) == Checked(r) /\ ~Rejected429(r)

\* C20: the check decides on the count the request read, whatever was written
\* to the counter since: a request that read a count below the limit is
\* admitted.
C20_DecidesOnCountRead ==
    \A r \in DOMAIN req :
        Checked(r) /\ req[r].rl.count < Bucket(req[r].handler).limit => Admitted(r)

\* Two requests both read limit - 1 and were both admitted, which made
\* limit + 1 admissions at one instant.
C20_Witness ==
    /\ \A r \in Slots(2) : Admitted(r) /\ req[r].rl.count = AUTH_LIMIT - 1
    /\ hist.rl[rateLimitKey(Txt.auth, BurstInput)].admitted = AUTH_LIMIT + 1
    /\ now = Epoch

\* C21: with two requests at a time on one counter, at most limit + 1
\* requests are ever admitted while the instant stays the same.
C21_OvershootAtMostOne ==
    \A k \in DOMAIN hist.rl : hist.rl[k].admitted <= AUTH_LIMIT + 1

\* The handlers that have a bucket, and the clients of the runs.
Handlers ==
    {"handlePosts", "handleCategories", "handleAuthors", "handleComments",
     "handleMedia", "handleAI", "handleSearch", "handleAuth"}

\* C25: the count a rate-limit counter holds is at least 1 and at most the
\* limit of its bucket.
C25_CountWithinLimit ==
    \A h \in Handlers, ip \in {<<>>, Txt.iP1, Txt.iP2} :
        LET k == rateLimitKey(Bucket(h).key, [ip |-> ip])
        IN  k \in DOMAIN kv
            => parseInt(kv[k].val) >= 1 /\ parseInt(kv[k].val) <= Bucket(h).limit

\* The counter holds the limit while a request that read limit - 1 is about
\* to write.
C25_Witness ==
    /\ rateLimitKey(Txt.auth, BurstInput) \in DOMAIN kv
    /\ kv[rateLimitKey(Txt.auth, BurstInput)].val = Digits(AUTH_LIMIT)
    /\ \E r \in Slots(2) : req[r].pc = <<"rateLimit", "check">> /\ req[r].count = AUTH_LIMIT - 1

\* C22: a request that reaches the counter window seconds or more after the
\* last admitted one is admitted; and the key-value store changes only when a
\* request is admitted, the counter of that request then expiring window
\* seconds later.
C22_AdmittedAfterWindow ==
    [][/\ \A r \in DOMAIN req :
             /\ req'[r].pc /= <<"rateLimit", "check">>
             /\ req'[r].rl.idx > 1
             /\ req'[r].rl.at - req'[r].rl.last >= Bucket(req'[r].handler).window * 1000
             => ~(req'[r].pc = <<"done">> /\ req'[r].resp.status = 429)
       /\ kv' /= kv
          => \E r \in DOMAIN req :
                LET k == rateLimitKey(Bucket(req[r].handler).key, req[r].in)
                IN  /\ req[r].pc = <<"rateLimit", "check">> /\ req'[r].pc = <<"handle">>
                    /\ kv'[k].exp = now + Bucket(req[r].handler).window * 1000
                    /\ \A x \in DOMAIN kv : x /= k => x \in DOMAIN kv' /\ kv'[x] = kv[x]]_vars

\* A client of the auth bucket was rejected and, 900 seconds after its last
\* admitted request, admitted.
C22_Witness ==
    /\ req[1].handler = "handleAuth" /\ Checked(1) /\ ~Rejected429(1)
    /\ req[1].rl.rejected
    /\ req[1].rl.at - req[1].rl.last = AUTH_WINDOW * 1000

-----------------------------------------------------------------------------
(* Requests of several clients to several buckets *)

KeysRequests == 3

From(ip, path) == Request("GET", path, ip, <<>>, NoAuth, NoQuery, NoBody)

\* Reads of the posts and of the categories by two clients and by clients
\* without CF-Connecting-IP.
\* Queries of the posts list: a search for "abc:", and a search for "abc" in
\* the category ":".
KeysQueries ==
    {NoQuery,
     [NoQuery EXCEPT !.search = Txt.abc \o <<COLON>>],
     [NoQuery EXCEPT !.search = Txt.abc, !.category = <<COLON>>]}

KeysInputs ==
    {From(ip, path) : ip \in {Txt.iP1, Txt.iP2, <<>>},
                      path \in {<<Txt.api, Txt.posts>>, <<Txt.api, Txt.categories>>}}
    \cup {Get(<<Txt.api, Txt.posts>>, qy) : qy \in KeysQueries}

\* The seeded post and a published post titled "abc:".
KeysDB ==
    [SeededDB EXCEPT !.posts = @ \cup {[id |-> 2, title |-> Txt.abc \o <<COLON>>,
                                        slug |-> generateSlug(Txt.abc \o <<COLON>>),
                                        content |-> Txt.body, status |-> "published",
                                        published_at |-> Epoch, view_count |-> 0,
                                        category_id |-> NULL, author_id |-> NULL]},
                     !.nextPost = 3, !.postsVer = 2]

InitKeys ==
    /\ now = Epoch
    /\ kv = EmptyKV
    /\ db = KeysDB
    /\ req = [r \in Slots(1) |-> Idle]
    /\ jwt = [none |-> TRUE]
    /\ hist = NoHist

NextKeys ==
    \/ \E in \in KeysInputs : fetch(1, in, KeysRequests)
    \/ rateLimitGet(1)
    \/ rateLimitCheck(1)
    \/ handle(1)
    \/ getPublishedPosts(1)
    \/ getCategories(1)

SpecKeys == InitKeys /\ [][NextKeys]_vars

\* "rate_limit:" bucket ":" client, the client being CF-Connecting-IP or,
\* without the header, "unknown".
OwnCounter(q) ==
    Txt.rateLimit \o Bucket(q.handler).key \o <<COLON>>
    \o (IF q.in.ip = <<>> THEN Txt.unknown ELSE q.in.ip)

\* C23: the rate limiter's steps of a request leave every entry of the
\* key-value store as it was but the counter "rate_limit:<bucket>:<client>"
\* of the request's bucket and client, which an admission writes; requests
\* without CF-Connecting-IP have the client "unknown".
C23_OwnCounterOnly ==
    [][\A r \in DOMAIN req :
          req[r].pc[1] = "rateLimit" /\ req'[r] /= req[r]
          => /\ \A x \in (DOMAIN kv \cup DOMAIN kv') \ {OwnCounter(req[r])} :
                   x \in DOMAIN kv /\ x \in DOMAIN kv' /\ kv'[x] = kv[x]
             /\ req'[r].pc = <<"handle">>
                => /\ OwnCounter(req[r]) \in DOMAIN kv'
                   /\ kv'[OwnCounter(req[r])].val = Digits(req[r].count + 1)]_vars

\* Two requests without CF-Connecting-IP were counted on one counter, next
\* to the counter of another client and a cached list.
C23_Witness ==
    LET unknown == Txt.rateLimit \o Txt.posts \o <<COLON>> \o Txt.unknown
        other == Txt.rateLimit \o Txt.posts \o <<COLON>> \o Txt.iP1
    IN  /\ unknown \in DOMAIN kv /\ kv[unknown].val = Digits(2)
        /\ other \in DOMAIN kv /\ kv[other].val = Digits(1)
        /\ postsCacheKey(NoQuery) \in DOMAIN kv
        /\ req[1].in.ip = <<>> /\ req[1].pc = <<"handle">>

-----------------------------------------------------------------------------
(* Posts created at the same time *)

\* C24: no two posts have one slug; and a createPost whose slug a post
\* already has, an earlier one or the one a concurrent request inserted, ends
\* with 500 "Failed to create post", the tables and the cache being as they
\* were.
C24_OneSlugOnePost ==
    [][/\ \A p1, p2 \in db'.posts : p1.slug = p2.slug => p1 = p2
       /\ \A r \in DOMAIN req :
             /\ req[r].pc = <<"createPost", "start">> /\ req'[r] /= req[r]
             /\ req[r].in.body.title /= <<>> /\ req[r].in.body.content /= <<>>
             /\ \E p \in db.posts : p.slug = generateSlug(req[r].in.body.title)
             => /\ req'[r].pc = <<"done">>
                /\ req'[r].resp.status = 500
                /\ req'[r].resp.error = "Failed to create post"
                /\ db' = db /\ kv' = kv]_vars

\* Of two requests creating "News 1" at the same time, one has inserted and
\* is invalidating the cache, the other has got the 500.
C24_Witness ==
    \E r, s \in DOMAIN req :
        /\ r /= s /\ req[r].in = req[s].in
        /\ req[r].pc = <<"createPost", "invalidate">>
        /\ req[s].pc = <<"done">> /\ req[s].resp.error = "Failed to create post"
        /\ req[s].calls = <<"KV.get", "KV.put", "DB">>

\* The query as the handler reads it.
QueryTuple(qy) ==
    <<pageParam(qy), limitParam(qy, DEFAULT_PAGE_SIZE, MAX_LIMIT), qy.search, qy.category,
      qy.author>>

\* C26: the key a list request looked up is the key of no query that differs
\* from the request's in page, limit, search, category or author; and the
\* list a request is answered from the cache is the list of its own query.
C26_KeyInjective ==
    /\ req[1].pc[1] \in {"getPublishedPosts", "done"}
       /\ req[1].in.path = <<Txt.api, Txt.posts>> /\ "key" \in DOMAIN req[1].obs
       => /\ \A qy \in KeysQueries :
                QueryTuple(qy) /= QueryTuple(req[1].in.query)
                => postsCacheKey(qy) /= req[1].obs.key
          /\ req[1].pc = <<"done">> /\ req[1].obs.hit
             => req[1].resp.data.data = selectPublishedPosts(req[1].in.query)

\* The posts a read answered with.
Returned(r) ==
    IF req[r].in.path = <<Txt.api, Txt.posts>>
    THEN {req[r].resp.data.data[i] : i \in 1..Len(req[r].resp.data.data)}
    ELSE {req[r].resp.data.data}

\* C27: every post that a read of the list or of a post is answered with is,
\* when the answer is given, a row of the posts table with status 'published'.
C27_OnlyPublishedReturned ==
    \A r \in DOMAIN req :
        /\ req[r].pc = <<"done">> /\ req[r].resp.status = 200
        /\ req[r].in.method = "GET"
        /\ Len(req[r].in.path) >= 2 /\ req[r].in.path[2] = Txt.posts
        => \A p \in Returned(r) :
              \E row \in db.posts : row.id = p.id /\ row.status = "published"

-----------------------------------------------------------------------------
(* Posts created and updated one after another *)

PublishRequests == 3

\* Posts created as draft (no status), published and archived, and updates
\* of the first post's status and title.
PublishInputs ==
    {Admin("POST", <<Txt.api, Txt.posts>>, PostBody(Txt.titleNews, "")),
     Admin("POST", <<Txt.api, Txt.posts>>, PostBody(Txt.titleHello, "published")),
     Admin("POST", <<Txt.api, Txt.posts>>, PostBody(Txt.abc, "archived")),
     Admin("PUT", <<Txt.api, Txt.posts, Txt.one>>, [NoBody EXCEPT !.status = "published"]),
     Admin("PUT", <<Txt.api, Txt.posts, Txt.one>>, [NoBody EXCEPT !.status = "draft"]),
     Admin("PUT", <<Txt.api, Txt.posts, Txt.one>>, [NoBody EXCEPT !.title = Txt.titleHelloBang])}

PublishTimes == {Epoch + 1000}

InitPublish ==
    /\ now = Epoch
    /\ kv = EmptyKV
    /\ db = EmptyDB
    /\ req = [r \in Slots(1) |-> Idle]
    /\ jwt = [none |-> TRUE]
    /\ hist = NoHist

NextPublish ==
    \/ \E in \in PublishInputs : fetch(1, in, PublishRequests)
    \/ rateLimitGet(1)
    \/ rateLimitCheck(1)
    \/ handle(1)
    \/ createPost(1)
    \/ updatePost(1)
    \/ invalidatePostsCache(1)
    \/ Tick(PublishTimes)

SpecPublish == InitPublish /\ [][NextPublish]_vars

\* C28: every post of status 'published' has a published_at; and a post
\* gets a published_at only in a step that leaves it 'published', so one
\* created with another status has none until an update publishes it.
C28_PublishedAt ==
    [][\A p \in db'.posts :
          /\ p.status = "published" => p.published_at /= NULL
          /\ /\ p.published_at /= NULL
             /\ \A o \in db.posts : o.id = p.id => o.published_at = NULL
             => p.status = "published"]_vars

\* A post created without a status has kept its null published_at through an
\* update of its title.
C28_Witness ==
    /\ req[1].pc = <<"done">> /\ req[1].in.method = "PUT" /\ req[1].resp.status = 200
    /\ req[1].in.body.title = Txt.titleHelloBang
    /\ \E p \in db.posts : /\ p.id = 1 /\ p.title = Txt.titleHelloBang
                           /\ p.status = "draft" /\ p.published_at = NULL

-----------------------------------------------------------------------------
(* Registrations at the same time *)

RegisterRequests == 3

RegisterInputs ==
    {Post(<<Txt.api, Txt.auth, Txt.register>>, Credential(e, p)) :
        e \in {Txt.emailA, Txt.emailQuote}, p \in {"password1", "password2"}}

InitRegister ==
    /\ now = Epoch
    /\ kv = EmptyKV
    /\ db = EmptyDB
    /\ req = [r \in Slots(2) |-> Idle]
    /\ jwt = [none |-> TRUE]
    /\ hist = NoHist

NextRegister ==
    \/ \E r \in Slots(2), in \in RegisterInputs : fetch(r, in, RegisterRequests)
    \/ \E r \in Slots(2) : rateLimitGet(r)
    \/ \E r \in Slots(2) : rateLimitCheck(r)
    \/ \E r \in Slots(2) : handle(r)
    \/ \E r \in Slots(2) : register(r)

SpecRegister == InitRegister /\ [][NextRegister]_vars

\* C29: under any interleaving of register requests there is at most one
\* account per email, a token is given only to the request that created the
\* account, and every request that finds its email registered, at its SELECT
\* or at its INSERT, is answered 409 'User already exists'.
C29_LoserGetsConflict ==
    [][/\ \A u, v \in db'.users : u.email = v.email => u = v
       /\ \A r \in DOMAIN req :
             /\ req[r].pc[1] = "register" /\ req'[r].pc = <<"done">>
             /\ validateEmail(req[r].in.body.email)
             /\ Len(req[r].in.body.password) >= MIN_PASSWORD
             => IF \E u \in db.users : u.email = req[r].in.body.email
                THEN /\ req'[r].resp.status = 409
                     /\ req'[r].resp.error = "User already exists"
                     /\ db' = db
                ELSE /\ req'[r].resp.status = 201
                     /\ \E u \in db'.users \ db.users : u.email = req[r].in.body.email]_vars

\* The parts of C29 about the accounts and the tokens alone.
OneAccountOneToken ==
    [][/\ \A u, v \in db'.users : u.email = v.email => u = v
       /\ \A r \in DOMAIN req :
             /\ req[r].pc[1] = "register" /\ req'[r].pc = <<"done">>
             /\ req'[r].resp.status = 201
             => ~ \E u \in db.users : u.email = req[r].in.body.email]_vars

====
